---- MODULE Spec2Model ----
(***************************************************************************)
(* Bill lifecycle and synchronisation of the Grace packing helper          *)
(* (src/App.tsx: the App component and the storage service).               *)
(*                                                                         *)
(* One action is one run-to-completion step of the JavaScript event loop:  *)
(* an event handler up to its first await that leaves the microtask queue, *)
(* or the continuation that runs when a network request settles.  A        *)
(* handler reads the component state through the closure of the render in  *)
(* which it was invoked; functional updaters (setAllBills(prev => ...))    *)
(* read the state current at the step.                                     *)
(***************************************************************************)
EXTENDS Integers, Sequences, FiniteSets, TLC

\* ------------------------------------------------------------------ bounds
MaxTasks == 2     \* creation attempts (handler invocations) in one behaviour
MaxTime == 1      \* Date.now() readings 0..MaxTime
MaxLen == 2       \* length of the invoice numbers of the duplicate-check inputs
MaxJobs == 2      \* edit, bulk and delete handler invocations in one behaviour
MaxFetches == 1   \* fetches of the subscription whose rows are on their way
MaxDesc == 6      \* length of the descriptions whose theme is resolved

\* ------------------------------------------------------------- value sets
\* A string whose characters matter is a sequence of one-character strings.
Whitespace == {" "}
Chars == {"a", "A", "1"} \cup Whitespace
DateSeq == <<"2024-01-01", "2024-01-02">>
Dates == {DateSeq[i] : i \in 1..Len(DateSeq)}
InvoiceNos == {<<>>, <<"a">>, <<"A", " ">>}
CustomerNames == {""}
DataUrls == {"data:image/jpeg;base64,AA"}
Undefined == "undefined"
\* null / undefined where the defined value is an object
null == [null |-> TRUE]
BoxCounts == {0, 2}
Descriptions == {"", "grp"}
PENDING == "PENDING"
PACKED == "PACKED"
BUCKET_NAME == "receipts"
Tasks == 1..MaxTasks
Jobs == 1..MaxJobs

\* ------------------------------------------------------------------ state
VARIABLES allBills, currentDate, isConfigured, isSyncing, loadingId,
          duplicateAlert, tasks, nextId, now, table, bucket, remoteLog,
          selectedIds, jobs, notified, fetched, themed

\* The state of the selection, of the edit, bulk and delete handlers in
\* flight, and of the subscription's fetches.
opsVars == <<selectedIds, jobs, notified, fetched>>

vars == <<allBills, currentDate, isConfigured, isSyncing, loadingId,
          duplicateAlert, tasks, nextId, now, table, bucket, remoteLog, opsVars, themed>>

\* ---------------------------------------------------------- pure helpers
\* JavaScript `x || ''` on a string or undefined.
OrEmpty(x) == IF x = Undefined THEN "" ELSE x

\* { ...b, ...upd }
Spread(b, upd) == [f \in DOMAIN b \cup DOMAIN upd |-> IF f \in DOMAIN upd THEN upd[f] ELSE b[f]]

\* String.prototype.toLowerCase on one character.
LowerChar(c) == IF c = "A" THEN "a" ELSE c

toLowerCase(s) == [i \in 1..Len(s) |-> LowerChar(s[i])]

RECURSIVE trimStart(_)
trimStart(s) == IF s # <<>> /\ Head(s) \in Whitespace THEN trimStart(Tail(s)) ELSE s

RECURSIVE trimEnd(_)
trimEnd(s) == IF s # <<>> /\ s[Len(s)] \in Whitespace THEN trimEnd(SubSeq(s, 1, Len(s) - 1)) ELSE s

\* String.prototype.trim
trim(s) == trimEnd(trimStart(s))

\* Faulty variant: the candidate is trimmed but not case-folded.
normalizedNew_CaseSensitive(invoiceNo) == trim(invoiceNo)

\* extracted.invoiceNo.trim().toLowerCase()
normalizedNew(invoiceNo) == toLowerCase(trim(invoiceNo))

\* The predicate of allBills.find(...) in the duplicate check.
IsDuplicateOf(b, normNew) == b.invoiceNo # <<>> /\ toLowerCase(trim(b.invoiceNo)) = normNew

\* Array.prototype.find: index of the first match, 0 when there is none.
FindIndex(bills, normNew) == IF \E i \in 1..Len(bills) : IsDuplicateOf(bills[i], normNew) THEN CHOOSE i \in 1..Len(bills) : IsDuplicateOf(bills[i], normNew) /\ \A j \in 1..(i - 1) : ~IsDuplicateOf(bills[j], normNew) ELSE 0

\* Faulty variant: the normalized candidate is not tested for emptiness.
duplicate_NoLengthCheck(bills, invoiceNo) == IF invoiceNo # <<>> THEN FindIndex(bills, normalizedNew(invoiceNo)) ELSE 0

\* The duplicate check of handleAddBill: 0 when the check does not run or
\* finds nothing, else the index of `duplicate` in the closure's allBills.
duplicate(bills, invoiceNo) == IF invoiceNo # <<>> /\ Len(normalizedNew(invoiceNo)) > 0 THEN FindIndex(bills, normalizedNew(invoiceNo)) ELSE 0

\* prev.filter(b => b.id !== id)
RECURSIVE FilterOutId(_, _)
FilterOutId(bills, id) == IF bills = <<>> THEN <<>> ELSE IF Head(bills).id = id THEN FilterOutId(Tail(bills), id) ELSE <<Head(bills)>> \o FilterOutId(Tail(bills), id)

\* Faulty variant: the offline image line is missing.
newBill_NoOfflineImage(id, extracted, base64Image, manualData, date, configured, t1, t2) == [id |-> id, imageUrl |-> "", customerName |-> OrEmpty(extracted.customerName), address |-> OrEmpty(extracted.address), invoiceNo |-> extracted.invoiceNo, billDate |-> OrEmpty(extracted.billDate), status |-> PENDING, isDelivery |-> FALSE, hasCRN |-> FALSE, isEditedBill |-> FALSE, isAdditionalBill |-> FALSE, boxCount |-> IF manualData = null THEN 0 ELSE manualData.boxCount, description |-> IF manualData = null THEN "" ELSE manualData.description, entryDate |-> date, createdAt |-> t1, updatedAt |-> t2]

\* The object literal of createBill, followed by the offline image line.
newBill(id, extracted, base64Image, manualData, date, configured, t1, t2) == [id |-> id, imageUrl |-> IF ~configured /\ base64Image # Undefined THEN base64Image ELSE "", customerName |-> OrEmpty(extracted.customerName), address |-> OrEmpty(extracted.address), invoiceNo |-> extracted.invoiceNo, billDate |-> OrEmpty(extracted.billDate), status |-> PENDING, isDelivery |-> FALSE, hasCRN |-> FALSE, isEditedBill |-> FALSE, isAdditionalBill |-> FALSE, boxCount |-> IF manualData = null THEN 0 ELSE manualData.boxCount, description |-> IF manualData = null THEN "" ELSE manualData.description, entryDate |-> date, createdAt |-> t1, updatedAt |-> t2]

\* `${bill.id}_${Date.now()}.jpg`
fileName(id, t) == ToString(id) \o "_" \o ToString(t) \o ".jpg"

\* storage.getPublicUrl(fileName).publicUrl
publicUrl(name) == "https://project.supabase.co/storage/v1/object/public/" \o BUCKET_NAME \o "/" \o name

\* Date.now(): a reading of a clock that never runs backwards.
Readings == {t \in now..(now + 1) : t <= MaxTime}

\* ---------------------------------------------------------------- tasks
NoBill == [id |-> 0]
NoPath == ""
NoExtracted == [customerName |-> "", address |-> "", invoiceNo |-> <<>>, billDate |-> ""]
IdleTask == [kind |-> "none", pc |-> "idle", outcome |-> "none", bills |-> <<>>, date |-> "", base64Image |-> Undefined, extracted |-> NoExtracted, newBill |-> NoBill, finalBill |-> NoBill, fileName |-> NoPath, newUploadedPath |-> NoPath, before |-> <<>>, untouched |-> TRUE]

\* Task t is the t-th creation attempt of the behaviour: an invocation of
\* handleAddBill or handleManualQuickAdd, continued by handleConfirmDuplicate
\* when the operator saves a blocked scan as a copy.
FreeSlot(t) == tasks[t].pc = "idle" /\ \A u \in Tasks : u < t => tasks[u].pc # "idle"

\* Ghost bookkeeping: every task other than t saw the store change.
Touch(ts, t) == [u \in Tasks |-> IF u = t THEN ts[u] ELSE [ts[u] EXCEPT !.untouched = FALSE]]

\* No storage-service call: the value of an unused slot.
NoCall == [fn |-> "none", pc |-> "none", bill |-> NoBill, finalBill |-> NoBill, imageBase64 |-> Undefined, oldPath |-> NoPath, fileName |-> NoPath, newUploadedPath |-> NoPath]

\* Job j is the j-th invocation of handleUpdateBill, handleDeleteBill,
\* applyGroupSettings, handlePackSelected or handleDeleteSelected; sel is
\* the selectedIds of its closure, calls the storage-service promises it
\* created, one for each bill it sends to the backend.
IdleJob == [kind |-> "none", pc |-> "idle", sel |-> {}, stamp |-> 0, calls |-> <<>>]

\* No card has resolved its theme: themed holds the arguments and the
\* result of the last call of getThemeStyles.
NoTheme == [colorName |-> Undefined, description |-> <<>>, styles |-> null]

\* Nothing selected, no handler in flight, no fetch outstanding.
OpsInit == /\ selectedIds = {}
           /\ jobs = [j \in Jobs |-> IdleJob]
           /\ notified = FALSE
           /\ fetched = {}

Init == /\ OpsInit
        /\ themed = NoTheme
        /\ allBills = <<>>
        /\ currentDate = DateSeq[1]
        /\ isConfigured \in BOOLEAN
        /\ isSyncing = FALSE
        /\ loadingId = "null"
        /\ duplicateAlert = null
        /\ tasks = [t \in Tasks |-> IdleTask]
        /\ nextId = 1
        /\ now = 0
        /\ table = {}
        /\ bucket = {}
        /\ remoteLog = {}

\* ------------------------------------------------------------ createBill
\* A handler that has returned; its local variables are gone.
Finished(task, outcome) == [IdleTask EXCEPT !.kind = task.kind, !.pc = "done", !.outcome = outcome, !.newBill = [id |-> task.newBill.id], !.untouched = task.untouched]

\* Faulty variant: the local insert is left to the completion of the persist.
createBill_AfterPersist(t, task, extracted, base64Image, manualData, date, loading) == \E t1 \in Readings : \E t2 \in {r \in t1..(t1 + 1) : r <= MaxTime} : \E t3 \in {r \in t2..(t2 + 1) : r <= MaxTime} :
    LET nb == newBill(nextId, extracted, base64Image, manualData, date, isConfigured, t1, t2)
        started == [IdleTask EXCEPT !.kind = task.kind, !.newBill = nb, !.finalBill = nb, !.before = allBills, !.untouched = TRUE]
    IN  /\ nextId' = nextId + 1
        /\ allBills' = allBills
        /\ IF ~isConfigured
             THEN /\ tasks' = [Touch(tasks, t) EXCEPT ![t] = Finished(started, "local")]
                  /\ loadingId' = "null"
                  /\ now' = t2
                  /\ UNCHANGED <<isSyncing, remoteLog>>
             ELSE /\ isSyncing' = TRUE
                  /\ loadingId' = loading
                  /\ IF base64Image \in DataUrls
                       THEN /\ tasks' = [Touch(tasks, t) EXCEPT ![t] = [started EXCEPT !.pc = "upload", !.fileName = fileName(nb.id, t3)]]
                            /\ remoteLog' = remoteLog \cup {"upload"}
                            /\ now' = t3
                       ELSE /\ tasks' = [Touch(tasks, t) EXCEPT ![t] = [started EXCEPT !.pc = "upsert"]]
                            /\ remoteLog' = remoteLog \cup {"upsert"}
                            /\ now' = t2
        /\ UNCHANGED <<themed, opsVars, currentDate, isConfigured, table, bucket>>

\* createBill up to its return (offline) or to the first await inside
\* saveBillToSupabase (configured), called by handler task t whose closure
\* holds the viewed date `date`.
createBill(t, task, extracted, base64Image, manualData, date, loading) == \E t1 \in Readings : \E t2 \in {r \in t1..(t1 + 1) : r <= MaxTime} : \E t3 \in {r \in t2..(t2 + 1) : r <= MaxTime} :
    LET nb == newBill(nextId, extracted, base64Image, manualData, date, isConfigured, t1, t2)
        started == [IdleTask EXCEPT !.kind = task.kind, !.newBill = nb, !.finalBill = nb, !.before = allBills, !.untouched = TRUE]
    IN  /\ nextId' = nextId + 1
        /\ allBills' = <<nb>> \o allBills
        /\ IF ~isConfigured
             THEN /\ tasks' = [Touch(tasks, t) EXCEPT ![t] = Finished(started, "local")]
                  /\ loadingId' = "null"
                  /\ now' = t2
                  /\ UNCHANGED <<isSyncing, remoteLog>>
             ELSE /\ isSyncing' = TRUE
                  /\ loadingId' = loading
                  /\ IF base64Image \in DataUrls
                       THEN /\ tasks' = [Touch(tasks, t) EXCEPT ![t] = [started EXCEPT !.pc = "upload", !.fileName = fileName(nb.id, t3)]]
                            /\ remoteLog' = remoteLog \cup {"upload"}
                            /\ now' = t3
                       ELSE /\ tasks' = [Touch(tasks, t) EXCEPT ![t] = [started EXCEPT !.pc = "upsert"]]
                            /\ remoteLog' = remoteLog \cup {"upsert"}
                            /\ now' = t2
        /\ UNCHANGED <<themed, opsVars, currentDate, isConfigured, table, bucket>>

\* Faulty variant: the catch block does not revert the optimistic insert.
Rollback_KeepsBill(t) == /\ allBills' = allBills
                         /\ isSyncing' = FALSE
                         /\ loadingId' = "null"
                         /\ tasks' = [tasks EXCEPT ![t] = Finished(tasks[t], "rolledback")]

\* Faulty variant: the catch block puts back the store read when createBill
\* began, instead of filtering the store as it is.
Rollback_RestoresSnapshot(t) == /\ allBills' = tasks[t].before
                                /\ isSyncing' = FALSE
                                /\ loadingId' = "null"
                                /\ tasks' = [Touch(tasks, t) EXCEPT ![t] = Finished(tasks[t], "rolledback")]

\* Faulty variant: the catch block drops the newest bill of the store,
\* whichever attempt created it.
Rollback_RemovesNewest(t) == /\ allBills' = IF allBills = <<>> THEN <<>> ELSE Tail(allBills)
                             /\ isSyncing' = FALSE
                             /\ loadingId' = "null"
                             /\ tasks' = [Touch(tasks, t) EXCEPT ![t] = Finished(tasks[t], "rolledback")]

\* The catch and finally blocks of createBill, then the caller's tail.
Rollback(t) == /\ allBills' = FilterOutId(allBills, tasks[t].newBill.id)
               /\ isSyncing' = FALSE
               /\ loadingId' = "null"
               /\ tasks' = [Touch(tasks, t) EXCEPT ![t] = Finished(tasks[t], "rolledback")]

\* ----------------------------------------------------------- handlers
\* The add buttons are rendered only while no duplicate alert is open.
StartScan(t, img) == /\ FreeSlot(t)
                     /\ duplicateAlert = null
                     /\ loadingId' = "new"
                     /\ tasks' = [tasks EXCEPT ![t] = [IdleTask EXCEPT !.kind = "scan", !.pc = "extract", !.bills = allBills, !.date = currentDate, !.base64Image = img]]
                     /\ UNCHANGED <<themed, opsVars, allBills, currentDate, isConfigured, isSyncing, duplicateAlert, nextId, now, table, bucket, remoteLog>>

\* Faulty variant: a draft bill put in the store before extraction is left there.
ExtractFail_KeepsDraft(t) == /\ tasks[t].pc = "extract"
                             /\ loadingId' = "null"
                             /\ allBills' = <<newBill(0, NoExtracted, Undefined, null, tasks[t].date, isConfigured, now, now)>> \o allBills
                             /\ tasks' = [Touch(tasks, t) EXCEPT ![t] = Finished(tasks[t], "aborted")]
                             /\ UNCHANGED <<themed, opsVars, currentDate, isConfigured, isSyncing, duplicateAlert, nextId, now, table, bucket, remoteLog>>

\* Reading the file, compressImage or extractBillDetails threw.
ExtractFail(t) == /\ tasks[t].pc = "extract"
                  /\ loadingId' = "null"
                  /\ tasks' = [tasks EXCEPT ![t] = Finished(tasks[t], "aborted")]
                  /\ UNCHANGED <<themed, opsVars, allBills, currentDate, isConfigured, isSyncing, duplicateAlert, nextId, now, table, bucket, remoteLog>>

\* Faulty variant: the alert is opened without the pending image.
ExtractDuplicate_DropsImage(t, extracted) == /\ tasks[t].pc = "extract"
                                             /\ duplicate(tasks[t].bills, extracted.invoiceNo) # 0
                                             /\ loadingId' = "null"
                                             /\ duplicateAlert' = [existing |-> tasks[t].bills[duplicate(tasks[t].bills, extracted.invoiceNo)], newData |-> extracted, base64 |-> Undefined]
                                             /\ tasks' = [tasks EXCEPT ![t] = [Finished(tasks[t], "blocked") EXCEPT !.extracted = extracted]]
                                             /\ UNCHANGED <<themed, opsVars, allBills, currentDate, isConfigured, isSyncing, nextId, now, table, bucket, remoteLog>>

\* extractBillDetails resolved and the duplicate check found a bill.
ExtractDuplicate(t, extracted) == /\ tasks[t].pc = "extract"
                                  /\ duplicate(tasks[t].bills, extracted.invoiceNo) # 0
                                  /\ loadingId' = "null"
                                  /\ duplicateAlert' = [existing |-> tasks[t].bills[duplicate(tasks[t].bills, extracted.invoiceNo)], newData |-> extracted, base64 |-> tasks[t].base64Image]
                                  /\ tasks' = [tasks EXCEPT ![t] = [Finished(tasks[t], "blocked") EXCEPT !.extracted = extracted]]
                                  /\ UNCHANGED <<themed, opsVars, allBills, currentDate, isConfigured, isSyncing, nextId, now, table, bucket, remoteLog>>

\* extractBillDetails resolved and the duplicate check let the scan pass.
ExtractCreate(t, extracted) == /\ tasks[t].pc = "extract"
                               /\ duplicate(tasks[t].bills, extracted.invoiceNo) = 0
                               /\ createBill(t, tasks[t], extracted, tasks[t].base64Image, null, tasks[t].date, loadingId)
                               /\ UNCHANGED duplicateAlert

\* handleAddBill(null): the "+" button.
BlankAdd(t) == /\ FreeSlot(t)
               /\ duplicateAlert = null
               /\ createBill(t, [IdleTask EXCEPT !.kind = "blank"], NoExtracted, Undefined, null, currentDate, "new")
               /\ UNCHANGED duplicateAlert

\* Faulty variant: the quick-add runs the duplicate check of the scan.
handleManualQuickAdd_ChecksDuplicate(t, data) == /\ FreeSlot(t)
                                                 /\ duplicateAlert = null
                                                 /\ IF duplicate(allBills, data.invoiceNo) # 0
                                                      THEN /\ duplicateAlert' = [existing |-> allBills[duplicate(allBills, data.invoiceNo)], newData |-> [customerName |-> data.customerName, invoiceNo |-> data.invoiceNo, address |-> "", billDate |-> currentDate], base64 |-> Undefined]
                                                           /\ tasks' = [tasks EXCEPT ![t] = Finished([IdleTask EXCEPT !.kind = "quick"], "blocked")]
                                                           /\ UNCHANGED <<themed, opsVars, allBills, currentDate, isConfigured, isSyncing, loadingId, nextId, now, table, bucket, remoteLog>>
                                                      ELSE /\ createBill(t, [IdleTask EXCEPT !.kind = "quick"], [customerName |-> data.customerName, invoiceNo |-> data.invoiceNo, address |-> "", billDate |-> currentDate], Undefined, [boxCount |-> data.boxCount, description |-> data.description], currentDate, "new")
                                                           /\ UNCHANGED duplicateAlert

\* handleManualQuickAdd(data)
handleManualQuickAdd(t, data) == /\ FreeSlot(t)
                                 /\ duplicateAlert = null
                                 /\ createBill(t, [IdleTask EXCEPT !.kind = "quick"], [customerName |-> data.customerName, invoiceNo |-> data.invoiceNo, address |-> "", billDate |-> currentDate], Undefined, [boxCount |-> data.boxCount, description |-> data.description], currentDate, "new")
                                 /\ UNCHANGED duplicateAlert

Blocked(t) == tasks[t].pc = "done" /\ tasks[t].outcome = "blocked"

\* Faulty variant: the alert is not closed before the copy is created.
handleConfirmDuplicate_KeepsAlert(t) == /\ Blocked(t) /\ \A u \in Tasks : u < t => ~Blocked(u)
                                        /\ duplicateAlert # null
                                        /\ duplicateAlert' = duplicateAlert
                                        /\ createBill(t, [IdleTask EXCEPT !.kind = "copy"], duplicateAlert.newData, duplicateAlert.base64, null, currentDate, "new_dup")

\* handleConfirmDuplicate: the "Save Copy" button of the duplicate alert.
handleConfirmDuplicate(t) == /\ Blocked(t) /\ \A u \in Tasks : u < t => ~Blocked(u)
                             /\ duplicateAlert # null
                             /\ duplicateAlert' = null
                             /\ createBill(t, [IdleTask EXCEPT !.kind = "copy"], duplicateAlert.newData, duplicateAlert.base64, null, currentDate, "new_dup")

\* The "Ignore" button of the duplicate alert: setDuplicateAlert(null).
IgnoreDuplicate == /\ duplicateAlert # null
                   /\ duplicateAlert' = null
                   /\ UNCHANGED <<themed, opsVars, allBills, currentDate, isConfigured, isSyncing, loadingId, tasks, nextId, now, table, bucket, remoteLog>>

\* ------------------------------------------------ saveBillToSupabase
\* table.upsert(bill): one row per primary key id.
upsert(rows, bill) == {r \in rows : r.id # bill.id} \cup {bill}

\* The storage upload resolved without error; the record upsert is issued.
UploadDone(t) == /\ tasks[t].pc = "upload"
                 /\ bucket' = bucket \cup {tasks[t].fileName}
                 /\ tasks' = [tasks EXCEPT ![t] = [@ EXCEPT !.pc = "upsert", !.newUploadedPath = tasks[t].fileName, !.finalBill = Spread(tasks[t].finalBill, [imageUrl |-> publicUrl(tasks[t].fileName)])]]
                 /\ remoteLog' = remoteLog \cup {"upsert"}
                 /\ UNCHANGED <<themed, opsVars, allBills, currentDate, isConfigured, isSyncing, loadingId, duplicateAlert, nextId, now, table>>

\* The storage upload failed: "Image Upload Failed" reaches createBill's catch.
UploadFail(t) == /\ tasks[t].pc = "upload"
                 /\ Rollback(t)
                 /\ UNCHANGED <<themed, opsVars, currentDate, isConfigured, duplicateAlert, nextId, now, table, bucket, remoteLog>>

\* The record upsert resolved without error: createBill's try ends, and the
\* change of the table is notified to the subscription.
UpsertDone(t) == /\ tasks[t].pc = "upsert"
                 /\ table' = upsert(table, tasks[t].finalBill)
                 /\ notified' = TRUE
                 /\ isSyncing' = FALSE
                 /\ loadingId' = "null"
                 /\ tasks' = [tasks EXCEPT ![t] = Finished(tasks[t], "committed")]
                 /\ UNCHANGED <<themed, selectedIds, jobs, fetched, allBills, currentDate, isConfigured, duplicateAlert, nextId, now, bucket, remoteLog>>

\* The record upsert returned dbError and no image was uploaded by this call.
UpsertFail(t) == /\ tasks[t].pc = "upsert"
                 /\ tasks[t].newUploadedPath = NoPath
                 /\ Rollback(t)
                 /\ UNCHANGED <<themed, opsVars, currentDate, isConfigured, duplicateAlert, nextId, now, table, bucket, remoteLog>>

\* The record upsert returned dbError after an upload: the removal of the
\* uploaded object is issued and awaited before the error is thrown.
UpsertFailCleanup(t) == /\ tasks[t].pc = "upsert"
                        /\ tasks[t].newUploadedPath # NoPath
                        /\ tasks' = [tasks EXCEPT ![t] = [@ EXCEPT !.pc = "cleanup"]]
                        /\ remoteLog' = remoteLog \cup {"remove"}
                        /\ UNCHANGED <<themed, opsVars, allBills, currentDate, isConfigured, isSyncing, loadingId, duplicateAlert, nextId, now, table, bucket>>

\* The removal settled (its error, if any, is not inspected); "Database
\* Save Failed" is thrown and reaches createBill's catch.
CleanupSettled(t, removed) == /\ tasks[t].pc = "cleanup"
                              /\ bucket' = IF removed THEN bucket \ {tasks[t].newUploadedPath} ELSE bucket
                              /\ Rollback(t)
                              /\ UNCHANGED <<themed, opsVars, currentDate, isConfigured, duplicateAlert, nextId, now, table, remoteLog>>

\* ------------------------------------------------------ date navigation
DateIndex(d) == CHOOSE i \in 1..Len(DateSeq) : DateSeq[i] = d

\* navigateDate(days) for the two arrow buttons, days = -1 or 1.  With an
\* empty currentDate, toISOString throws on the invalid date: no update.
navigateDate(days) == /\ duplicateAlert = null
                      /\ currentDate \in Dates
                      /\ DateIndex(currentDate) + days \in 1..Len(DateSeq)
                      /\ currentDate' = DateSeq[DateIndex(currentDate) + days]
                      /\ UNCHANGED <<themed, opsVars, allBills, isConfigured, isSyncing, loadingId, duplicateAlert, tasks, nextId, now, table, bucket, remoteLog>>

\* The date input's onChange: setCurrentDate(e.target.value); the value of
\* a cleared date input is the empty string.
PickDate(d) == /\ duplicateAlert = null
               /\ currentDate' = d
               /\ UNCHANGED <<themed, opsVars, allBills, isConfigured, isSyncing, loadingId, duplicateAlert, tasks, nextId, now, table, bucket, remoteLog>>

\* ---------------------------------------------------------------- inputs
Extractions == [customerName : CustomerNames, address : {""}, invoiceNo : InvoiceNos, billDate : {""}]
QuickAddInputs == [customerName : CustomerNames, invoiceNo : InvoiceNos, boxCount : {2}, description : {"grp"}]

Next == \/ \E t \in Tasks, img \in DataUrls : StartScan(t, img)
        \/ \E t \in Tasks : ExtractFail(t)
        \/ \E t \in Tasks, e \in Extractions : ExtractDuplicate(t, e)
        \/ \E t \in Tasks, e \in Extractions : ExtractCreate(t, e)
        \/ \E t \in Tasks : BlankAdd(t)
        \/ \E t \in Tasks, data \in QuickAddInputs : handleManualQuickAdd(t, data)
        \/ \E t \in Tasks : handleConfirmDuplicate(t)
        \/ IgnoreDuplicate
        \/ \E t \in Tasks : UploadDone(t)
        \/ \E t \in Tasks : UploadFail(t)
        \/ \E t \in Tasks : UpsertDone(t)
        \/ \E t \in Tasks : UpsertFail(t)
        \/ \E t \in Tasks : UpsertFailCleanup(t)
        \/ \E t \in Tasks, removed \in BOOLEAN : CleanupSettled(t, removed)
        \/ \E days \in {-1, 1} : navigateDate(days)
        \/ \E d \in Dates \cup {""} : PickDate(d)

Spec == Init /\ [][Next]_vars

\* ------------------------------------------- the duplicate check in isolation
\* A scan whose extraction is about to resolve, in an offline session whose
\* store was filled by quick-adds; the stored and the extracted invoice
\* numbers range over every string of at most MaxLen characters.
RECURSIVE StringsOfLen(_)
StringsOfLen(n) == IF n = 0 THEN {<<>>} ELSE {<<c>> \o s : c \in Chars, s \in StringsOfLen(n - 1)}

Strings == UNION {StringsOfLen(n) : n \in 0..MaxLen}

\* A store as quick-adds on the first date leave it, newest first.
StoredBill(id, invoiceNo) == newBill(id, [customerName |-> "", address |-> "", invoiceNo |-> invoiceNo, billDate |-> DateSeq[1]], Undefined, [boxCount |-> 2, description |-> "grp"], DateSeq[1], FALSE, 0, 0)

DupStores == {<<>>} \cup {<<StoredBill(1, a)>> : a \in Strings} \cup {<<StoredBill(2, x), StoredBill(1, a)>> : x \in InvoiceNos, a \in Strings} \cup {<<StoredBill(2, a), StoredBill(1, x)>> : x \in InvoiceNos, a \in Strings}

DupExtractions == [customerName : {""}, address : {""}, invoiceNo : Strings, billDate : {""}]

InitDup == /\ OpsInit
           /\ themed = NoTheme
           /\ allBills \in DupStores
           /\ currentDate = DateSeq[1]
           /\ isConfigured = FALSE
           /\ isSyncing = FALSE
           /\ loadingId = "new"
           /\ duplicateAlert = null
           /\ tasks = [t \in Tasks |-> IF t = 1 THEN [IdleTask EXCEPT !.kind = "scan", !.pc = "extract", !.bills = allBills, !.date = currentDate, !.base64Image = CHOOSE img \in DataUrls : TRUE] ELSE IdleTask]
           /\ nextId = Len(allBills) + 1
           /\ now = 0
           /\ table = {}
           /\ bucket = {}
           /\ remoteLog = {}

NextDup == \/ \E e \in DupExtractions : ExtractDuplicate(1, e)
           \/ \E e \in DupExtractions : ExtractCreate(1, e)

SpecDup == InitDup /\ [][NextDup]_vars

Ids(bills) == {bills[i].id : i \in 1..Len(bills)}

\* ------------------------------------------- the storage service's calls
\* The object names the bucket can come to hold.
FileNames == {fileName(id, t) : id \in 1..(MaxTasks + 2), t \in 0..(MaxTime + 1)}

\* bill.imageUrl.includes(`/${BUCKET_NAME}/`), then split and
\* decodeURIComponent: the object name of a public URL of the bucket, ''
\* for any other imageUrl.
pathOf(url) == IF \E n \in FileNames : publicUrl(n) = url THEN CHOOSE n \in FileNames : publicUrl(n) = url ELSE NoPath

\* A bill without its optional field f (the field is undefined).
Without(b, f) == [g \in DOMAIN b \ {f} |-> b[g]]

\* prev.filter(b => !selectedIds.has(b.id))
RECURSIVE FilterOutIds(_, _)
FilterOutIds(bills, ids) == IF bills = <<>> THEN <<>> ELSE IF Head(bills).id \in ids THEN FilterOutIds(Tail(bills), ids) ELSE <<Head(bills)>> \o FilterOutIds(Tail(bills), ids)

\* The bill with the given id in a list that holds one.
BillOf(bills, id) == bills[CHOOSE i \in 1..Len(bills) : bills[i].id = id]

\* saveBillToSupabase(bill, imageBase64) up to its first await: the removal
\* of the previous image, the upload, or the upsert.  t is the reading of
\* Date.now() that names the upload when it is issued at once.
saveBillToSupabase(bill, imageBase64, t) == IF imageBase64 \in DataUrls THEN (IF pathOf(bill.imageUrl) # NoPath THEN [NoCall EXCEPT !.fn = "save", !.pc = "cleanup", !.bill = bill, !.finalBill = bill, !.imageBase64 = imageBase64, !.oldPath = pathOf(bill.imageUrl)] ELSE [NoCall EXCEPT !.fn = "save", !.pc = "upload", !.bill = bill, !.finalBill = bill, !.imageBase64 = imageBase64, !.fileName = fileName(bill.id, t)]) ELSE [NoCall EXCEPT !.fn = "save", !.pc = "upsert", !.bill = bill, !.finalBill = bill, !.imageBase64 = imageBase64]

\* deleteBillFromSupabase(id) up to its first await: the select of imageUrl.
deleteBillFromSupabase(id) == [NoCall EXCEPT !.fn = "delete", !.pc = "select", !.bill = [id |-> id]]

Fulfilled(c) == c.pc \in {"ok", "settled"}

Rejected(c) == c.pc = "failed"

\* Promise.all(promises) is rejected as soon as one promise is rejected and
\* fulfilled once every promise is fulfilled.
AllFulfilled(cs) == \A k \in DOMAIN cs : Fulfilled(cs[k])

AnyRejected(cs) == \E k \in DOMAIN cs : Rejected(cs[k])

Settled(c) == Fulfilled(c) \/ Rejected(c)

\* A handler that has returned or thrown and whose promises have all
\* settled: nothing of it is left but how it ended ("dropped": it had
\* returned without awaiting a promise that was rejected later).
Returned(kind, pc) == [IdleJob EXCEPT !.kind = kind, !.pc = pc]

\* Faulty variant: a rejected persist of an edit takes the bill out of the
\* store, as the catch block of createBill does.
Resume_RollsBackEdit(j, cs) == LET job == jobs[j] IN
    IF job.pc = "await" /\ AnyRejected(cs)
      THEN /\ jobs' = [jobs EXCEPT ![j] = IF \A k \in DOMAIN cs : Settled(cs[k]) THEN Returned(job.kind, "thrown") ELSE [job EXCEPT !.pc = "thrown", !.calls = cs]]
           /\ UNCHANGED <<allBills, isSyncing, selectedIds>>
      ELSE IF job.pc = "await" /\ AllFulfilled(cs)
        THEN /\ jobs' = [jobs EXCEPT ![j] = Returned(job.kind, "done")]
             /\ isSyncing' = FALSE
             /\ selectedIds' = {}
             /\ allBills' = IF job.kind = "delete" THEN FilterOutIds(allBills, job.sel) ELSE allBills
        ELSE /\ jobs' = [jobs EXCEPT ![j] = IF job.pc # "await" /\ \A k \in DOMAIN cs : Settled(cs[k]) THEN Returned(job.kind, IF job.pc = "thrown" THEN "thrown" ELSE IF AnyRejected(cs) THEN "dropped" ELSE "done") ELSE [job EXCEPT !.calls = cs]]
             /\ allBills' = IF job.kind = "edit" /\ AnyRejected(cs) THEN FilterOutIds(allBills, job.sel) ELSE allBills
             /\ UNCHANGED <<isSyncing, selectedIds>>

\* Faulty variant: when Promise.all is rejected the handler takes the bills
\* of the batch out of the store, as the catch block of createBill does.
Resume_RollsBackBatch(j, cs) == LET job == jobs[j] IN
    IF job.pc = "await" /\ AnyRejected(cs)
      THEN /\ jobs' = [jobs EXCEPT ![j] = IF \A k \in DOMAIN cs : Settled(cs[k]) THEN Returned(job.kind, "thrown") ELSE [job EXCEPT !.pc = "thrown", !.calls = cs]]
           /\ allBills' = FilterOutIds(allBills, job.sel)
           /\ UNCHANGED <<isSyncing, selectedIds>>
      ELSE IF job.pc = "await" /\ AllFulfilled(cs)
        THEN /\ jobs' = [jobs EXCEPT ![j] = Returned(job.kind, "done")]
             /\ isSyncing' = FALSE
             /\ selectedIds' = {}
             /\ allBills' = IF job.kind = "delete" THEN FilterOutIds(allBills, job.sel) ELSE allBills
        ELSE /\ jobs' = [jobs EXCEPT ![j] = IF job.pc # "await" /\ \A k \in DOMAIN cs : Settled(cs[k]) THEN Returned(job.kind, IF job.pc = "thrown" THEN "thrown" ELSE IF AnyRejected(cs) THEN "dropped" ELSE "done") ELSE [job EXCEPT !.calls = cs]]
             /\ UNCHANGED <<allBills, isSyncing, selectedIds>>

\* What the caller of job j does in the step in which one of its promises
\* settles and leaves the calls as cs: the rest of a bulk handler once its
\* Promise.all is fulfilled, nothing in a handler that did not await
\* (handleUpdateBill, handleDeleteBill), the end of the handler without its
\* remaining statements when Promise.all is rejected.
Resume(j, cs) == LET job == jobs[j] IN
    IF job.pc = "await" /\ AnyRejected(cs)
      THEN /\ jobs' = [jobs EXCEPT ![j] = IF \A k \in DOMAIN cs : Settled(cs[k]) THEN Returned(job.kind, "thrown") ELSE [job EXCEPT !.pc = "thrown", !.calls = cs]]
           /\ UNCHANGED <<allBills, isSyncing, selectedIds>>
      ELSE IF job.pc = "await" /\ AllFulfilled(cs)
        THEN /\ jobs' = [jobs EXCEPT ![j] = Returned(job.kind, "done")]
             /\ isSyncing' = FALSE
             /\ selectedIds' = {}
             /\ allBills' = IF job.kind = "delete" THEN FilterOutIds(allBills, job.sel) ELSE allBills
        ELSE /\ jobs' = [jobs EXCEPT ![j] = IF job.pc # "await" /\ \A k \in DOMAIN cs : Settled(cs[k]) THEN Returned(job.kind, IF job.pc = "thrown" THEN "thrown" ELSE IF AnyRejected(cs) THEN "dropped" ELSE "done") ELSE [job EXCEPT !.calls = cs]]
             /\ UNCHANGED <<allBills, isSyncing, selectedIds>>

\* The calls of job j after call k moved on to c.
With(j, k, c) == [jobs[j].calls EXCEPT ![k] = c]

InCall(j, k, pc) == k \in DOMAIN jobs[j].calls /\ jobs[j].calls[k].pc = pc

otherVars == <<currentDate, isConfigured, loadingId, duplicateAlert, tasks, nextId>>

\* The removal of the previous image settled; its outcome is not looked at
\* and an exception is caught.  The upload is issued under a new name.
SaveCleanupSettled(j, k, removed) == \E t \in Readings :
    /\ InCall(j, k, "cleanup")
    /\ bucket' = IF removed THEN bucket \ {jobs[j].calls[k].oldPath} ELSE bucket
    /\ now' = t
    /\ remoteLog' = remoteLog \cup {"upload"}
    /\ Resume(j, With(j, k, [jobs[j].calls[k] EXCEPT !.pc = "upload", !.fileName = fileName(jobs[j].calls[k].bill.id, t)]))
    /\ UNCHANGED <<themed, otherVars, table, notified, fetched>>

\* Faulty variant: the upsert is sent with the bill as it was given.
SaveUploadDone_KeepsUrl(j, k) ==
    /\ InCall(j, k, "upload")
    /\ bucket' = bucket \cup {jobs[j].calls[k].fileName}
    /\ remoteLog' = remoteLog \cup {"upsert"}
    /\ Resume(j, With(j, k, [jobs[j].calls[k] EXCEPT !.pc = "upsert", !.newUploadedPath = jobs[j].calls[k].fileName]))
    /\ UNCHANGED <<themed, otherVars, now, table, notified, fetched>>

\* The upload resolved without error: newUploadedPath and finalBill.imageUrl
\* are set and the upsert of finalBill is issued.
SaveUploadDone(j, k) ==
    /\ InCall(j, k, "upload")
    /\ bucket' = bucket \cup {jobs[j].calls[k].fileName}
    /\ remoteLog' = remoteLog \cup {"upsert"}
    /\ Resume(j, With(j, k, [jobs[j].calls[k] EXCEPT !.pc = "upsert", !.newUploadedPath = jobs[j].calls[k].fileName, !.finalBill = Spread(jobs[j].calls[k].finalBill, [imageUrl |-> publicUrl(jobs[j].calls[k].fileName)])]))
    /\ UNCHANGED <<themed, otherVars, now, table, notified, fetched>>

\* The upload returned uploadError: "Image Upload Failed" is thrown.
SaveUploadFail(j, k) ==
    /\ InCall(j, k, "upload")
    /\ Resume(j, With(j, k, [jobs[j].calls[k] EXCEPT !.pc = "failed"]))
    /\ UNCHANGED <<themed, otherVars, now, table, bucket, remoteLog, notified, fetched>>

\* The upsert resolved without dbError: the promise is fulfilled, and the
\* change of the table is notified to the subscription.
SaveUpsertDone(j, k) ==
    /\ InCall(j, k, "upsert")
    /\ table' = upsert(table, jobs[j].calls[k].finalBill)
    /\ notified' = TRUE
    /\ Resume(j, With(j, k, [jobs[j].calls[k] EXCEPT !.pc = "ok"]))
    /\ UNCHANGED <<themed, otherVars, now, bucket, remoteLog, fetched>>

\* Faulty variant: the error is thrown without removing the uploaded image.
SaveUpsertFail_NoCompensation(j, k) ==
    /\ InCall(j, k, "upsert")
    /\ Resume(j, With(j, k, [jobs[j].calls[k] EXCEPT !.pc = "failed"]))
    /\ UNCHANGED <<themed, otherVars, now, table, bucket, remoteLog, notified, fetched>>

\* The upsert returned dbError: the removal of the image this call uploaded
\* is issued and awaited, or "Database Save Failed" is thrown at once.
SaveUpsertFail(j, k) ==
    /\ InCall(j, k, "upsert")
    /\ remoteLog' = IF jobs[j].calls[k].newUploadedPath # NoPath THEN remoteLog \cup {"remove"} ELSE remoteLog
    /\ Resume(j, With(j, k, [jobs[j].calls[k] EXCEPT !.pc = IF jobs[j].calls[k].newUploadedPath # NoPath THEN "rollback" ELSE "failed"]))
    /\ UNCHANGED <<themed, otherVars, now, table, bucket, notified, fetched>>

\* The removal of the uploaded image settled (its result is not looked at);
\* "Database Save Failed" is thrown.
SaveRollbackSettled(j, k, removed) ==
    /\ InCall(j, k, "rollback")
    /\ bucket' = IF removed THEN bucket \ {jobs[j].calls[k].newUploadedPath} ELSE bucket
    /\ Resume(j, With(j, k, [jobs[j].calls[k] EXCEPT !.pc = "failed"]))
    /\ UNCHANGED <<themed, otherVars, now, table, remoteLog, notified, fetched>>

\* The row `.select('imageUrl').eq('id', id).single()` returns: null when
\* the request fails or no row has the id.
Selected(id, ok) == IF ok /\ \E r \in table : r.id = id THEN CHOOSE r \in table : r.id = id ELSE NoBill

\* The select settled; the image of the row, when it has one in the bucket,
\* is removed next, else the record is.
DeleteSelectSettled(j, k, ok) ==
    /\ InCall(j, k, "select")
    /\ LET bill == Selected(jobs[j].calls[k].bill.id, ok)
           path == IF bill = NoBill THEN NoPath ELSE pathOf(bill.imageUrl)
       IN  /\ remoteLog' = remoteLog \cup {IF path # NoPath THEN "remove" ELSE "delete"}
           /\ Resume(j, With(j, k, [jobs[j].calls[k] EXCEPT !.pc = IF path # NoPath THEN "remove" ELSE "delete", !.oldPath = path]))
    /\ UNCHANGED <<themed, otherVars, now, table, bucket, notified, fetched>>

\* Faulty variant: a storageError ends the call.
DeleteImageSettled_StopsOnError(j, k, removed) ==
    /\ InCall(j, k, "remove")
    /\ bucket' = IF removed THEN bucket \ {jobs[j].calls[k].oldPath} ELSE bucket
    /\ remoteLog' = IF removed THEN remoteLog \cup {"delete"} ELSE remoteLog
    /\ Resume(j, With(j, k, [jobs[j].calls[k] EXCEPT !.pc = IF removed THEN "delete" ELSE "settled"]))
    /\ UNCHANGED <<themed, otherVars, now, table, notified, fetched>>

\* The removal of the image settled; a storageError is only logged and the
\* delete of the record is issued.
DeleteImageSettled(j, k, removed) ==
    /\ InCall(j, k, "remove")
    /\ bucket' = IF removed THEN bucket \ {jobs[j].calls[k].oldPath} ELSE bucket
    /\ remoteLog' = remoteLog \cup {"delete"}
    /\ Resume(j, With(j, k, [jobs[j].calls[k] EXCEPT !.pc = "delete"]))
    /\ UNCHANGED <<themed, otherVars, now, table, notified, fetched>>

\* The delete of the record settled; an error is only logged.  The promise
\* of deleteBillFromSupabase is fulfilled either way.
DeleteRecordSettled(j, k, ok) ==
    /\ InCall(j, k, "delete")
    /\ table' = IF ok THEN {r \in table : r.id # jobs[j].calls[k].bill.id} ELSE table
    /\ notified' = (notified \/ table' # table)
    /\ Resume(j, With(j, k, [jobs[j].calls[k] EXCEPT !.pc = "settled"]))
    /\ UNCHANGED <<themed, otherVars, now, bucket, remoteLog, fetched>>

\* --------------------------------------------------- the subscription
\* .order('createdAt', { ascending: false }): the rows in an order in which
\* createdAt never increases; rows of equal createdAt come in any order.
Ordered(rows) == {s \in [1..Cardinality(rows) -> rows] : (\A r \in rows : \E i \in DOMAIN s : s[i] = r) /\ (\A i, k \in DOMAIN s : i < k => s[i].createdAt >= s[k].createdAt)}

\* fetchBills up to the settling of its select, run for a change of the
\* table that the channel reported: the rows are read, or the request
\* returns an error and the fetch ends without calling onUpdate.
FetchSelect(ok) ==
    /\ isConfigured
    /\ notified
    /\ Cardinality(fetched) < MaxFetches
    /\ notified' = FALSE
    /\ fetched' = IF ok THEN fetched \cup {table} ELSE fetched
    /\ UNCHANGED <<themed, otherVars, allBills, isSyncing, now, table, bucket, remoteLog, selectedIds, jobs>>

\* Faulty variant: the callback puts the rows in front of the store
\* instead of replacing it.
FetchDelivered_Appends(rows, bills) ==
    /\ rows \in fetched
    /\ bills \in Ordered(rows)
    /\ fetched' = fetched \ {rows}
    /\ allBills' = bills \o allBills
    /\ isSyncing' = FALSE
    /\ UNCHANGED <<themed, otherVars, now, table, bucket, remoteLog, selectedIds, jobs, notified>>

\* The rest of fetchBills and the subscription's callback in App:
\* setAllBills(bills); setIsSyncing(false).
FetchDelivered(rows, bills) ==
    /\ rows \in fetched
    /\ bills \in Ordered(rows)
    /\ fetched' = fetched \ {rows}
    /\ allBills' = bills
    /\ isSyncing' = FALSE
    /\ UNCHANGED <<themed, otherVars, now, table, bucket, remoteLog, selectedIds, jobs, notified>>

\* ------------------------------------------- edit, bulk and delete handlers
FreeJob(j) == jobs[j].pc = "idle" /\ \A u \in Jobs : u < j => jobs[u].pc # "idle"

\* handleToggleSelect(id) for the card of a bill of the store.
handleToggleSelect(id) ==
    /\ id \in Ids(allBills)
    /\ selectedIds' = IF id \in selectedIds THEN selectedIds \ {id} ELSE selectedIds \cup {id}
    /\ UNCHANGED <<themed, otherVars, allBills, isSyncing, now, table, bucket, remoteLog, jobs, notified, fetched>>

\* { ...b, description: groupNameInput, colorTheme: groupColorInput || undefined, updatedAt: now }
Retagged(b, name, color, t) == IF color = "" THEN Without(Spread(b, [description |-> name, updatedAt |-> t]), "colorTheme") ELSE Spread(b, [description |-> name, colorTheme |-> color, updatedAt |-> t])

\* Faulty variant: the status is changed without stamping packedAt.
Packed_NoStamp(b, t) == Spread(b, [status |-> PACKED, updatedAt |-> t])

\* { ...b, status: PackingStatus.PACKED, packedAt: now, updatedAt: now }
Packed(b, t) == Spread(b, [status |-> PACKED, packedAt |-> t, updatedAt |-> t])

\* Faulty variant: the map stops at the first selected bill, the others
\* being left to a later step.
Updates_FirstOnly(kind, name, color, t) == [i \in 1..Len(allBills) |-> IF allBills[i].id \in selectedIds /\ (\A n \in 1..(i - 1) : allBills[n].id \notin selectedIds) THEN (IF kind = "pack" THEN Packed(allBills[i], t) ELSE Retagged(allBills[i], name, color, t)) ELSE allBills[i]]

\* allBills.map(b => selectedIds.has(b.id) ? change(b) : b), the change
\* being that of applyGroupSettings or of handlePackSelected.
Updates(kind, name, color, t) == [i \in 1..Len(allBills) |-> IF allBills[i].id \in selectedIds THEN (IF kind = "pack" THEN Packed(allBills[i], t) ELSE Retagged(allBills[i], name, color, t)) ELSE allBills[i]]

\* The shared body of applyGroupSettings and handlePackSelected: the local
\* replace, then, when configured, one saveBillToSupabase per selected bill
\* and the await of Promise.all, else the end of the selection.
BulkUpdate(j, kind, updates, t) ==
    LET sent == {updates[i].id : i \in {n \in 1..Len(updates) : updates[n].id \in selectedIds}}
        started == [IdleJob EXCEPT !.kind = kind, !.sel = selectedIds, !.stamp = t]
    IN  /\ FreeJob(j)
        /\ allBills' = updates
        /\ now' = t
        /\ IF isConfigured /\ sent # {}
             THEN /\ isSyncing' = TRUE
                  /\ jobs' = [jobs EXCEPT ![j] = [started EXCEPT !.pc = "await", !.calls = [id \in sent |-> saveBillToSupabase(BillOf(updates, id), Undefined, t)]]]
                  /\ remoteLog' = remoteLog \cup {"upsert"}
                  /\ UNCHANGED selectedIds
             ELSE /\ isSyncing' = IF isConfigured THEN FALSE ELSE isSyncing
                  /\ jobs' = [jobs EXCEPT ![j] = Returned(kind, "done")]
                  /\ selectedIds' = {}
                  /\ UNCHANGED remoteLog
        /\ UNCHANGED <<themed, otherVars, table, bucket, notified, fetched>>

\* applyGroupSettings with the name and the colour typed in the group
\* modal, which opens only for a selection that is not empty.
applyGroupSettings(j, name, color) == \E t \in Readings :
    /\ selectedIds # {}
    /\ BulkUpdate(j, "retag", Updates("retag", name, color, t), t)

\* Faulty variant: Date.now() is read inside the map, once for each bill.
handlePackSelected_StampsEach(j) == \E t \in Readings :
    /\ selectedIds # {}
    /\ BulkUpdate(j, "pack", [i \in 1..Len(allBills) |-> IF allBills[i].id \in selectedIds THEN Packed(allBills[i], t + i - 1) ELSE allBills[i]], t)

\* handlePackSelected, the operator confirming.
handlePackSelected(j) == \E t \in Readings :
    /\ selectedIds # {}
    /\ BulkUpdate(j, "pack", Updates("pack", "", "", t), t)

\* Faulty variant: the local removal is done before the remote deletes.
handleDeleteSelected_LocalFirst(j) ==
    /\ FreeJob(j)
    /\ selectedIds # {}
    /\ IF isConfigured
         THEN /\ isSyncing' = TRUE
              /\ jobs' = [jobs EXCEPT ![j] = [IdleJob EXCEPT !.kind = "delete", !.pc = "await", !.sel = selectedIds, !.calls = [id \in selectedIds |-> deleteBillFromSupabase(id)]]]
              /\ remoteLog' = remoteLog \cup {"select"}
              /\ allBills' = FilterOutIds(allBills, selectedIds)
              /\ UNCHANGED selectedIds
         ELSE /\ allBills' = FilterOutIds(allBills, selectedIds)
              /\ jobs' = [jobs EXCEPT ![j] = Returned("delete", "done")]
              /\ selectedIds' = {}
              /\ UNCHANGED <<isSyncing, remoteLog>>
    /\ UNCHANGED <<themed, otherVars, now, table, bucket, notified, fetched>>

\* handleDeleteSelected, the operator confirming: when configured one
\* deleteBillFromSupabase per selected id and the await of Promise.all,
\* else the local removal at once.
handleDeleteSelected(j) ==
    /\ FreeJob(j)
    /\ selectedIds # {}
    /\ IF isConfigured
         THEN /\ isSyncing' = TRUE
              /\ jobs' = [jobs EXCEPT ![j] = [IdleJob EXCEPT !.kind = "delete", !.pc = "await", !.sel = selectedIds, !.calls = [id \in selectedIds |-> deleteBillFromSupabase(id)]]]
              /\ remoteLog' = remoteLog \cup {"select"}
              /\ UNCHANGED <<allBills, selectedIds>>
         ELSE /\ allBills' = FilterOutIds(allBills, selectedIds)
              /\ jobs' = [jobs EXCEPT ![j] = Returned("delete", "done")]
              /\ selectedIds' = {}
              /\ UNCHANGED <<isSyncing, remoteLog>>
    /\ UNCHANGED <<themed, otherVars, now, table, bucket, notified, fetched>>

\* Faulty variant: an edit of a bill the store does not hold is put in
\* front of the store.
Replaced_Upserts(bills, updated) == IF updated.id \in {bills[i].id : i \in 1..Len(bills)} THEN [i \in 1..Len(bills) |-> IF bills[i].id = updated.id THEN updated ELSE bills[i]] ELSE <<updated>> \o bills

\* prev.map(b => b.id === updated.id ? updated : b)
Replaced(bills, updated) == [i \in 1..Len(bills) |-> IF bills[i].id = updated.id THEN updated ELSE bills[i]]

\* Faulty variant: the persist is issued whether a backend is configured
\* or not.
handleUpdateBill_AlwaysSaves(j, updated) ==
    /\ FreeJob(j)
    /\ allBills' = Replaced(allBills, updated)
    /\ jobs' = [jobs EXCEPT ![j] = [IdleJob EXCEPT !.kind = "edit", !.pc = "detached", !.sel = {updated.id}, !.calls = [id \in {updated.id} |-> saveBillToSupabase(updated, Undefined, now)]]]
    /\ remoteLog' = remoteLog \cup {"upsert"}
    /\ UNCHANGED <<themed, otherVars, isSyncing, now, table, bucket, selectedIds, notified, fetched>>

\* handleUpdateBill(updated): the local replace, then, when configured, a
\* saveBillToSupabase that is not awaited and whose rejection is dropped.
handleUpdateBill(j, updated) ==
    /\ FreeJob(j)
    /\ allBills' = Replaced(allBills, updated)
    /\ IF isConfigured
         THEN /\ jobs' = [jobs EXCEPT ![j] = [IdleJob EXCEPT !.kind = "edit", !.pc = "detached", !.sel = {updated.id}, !.calls = [id \in {updated.id} |-> saveBillToSupabase(updated, Undefined, now)]]]
              /\ remoteLog' = remoteLog \cup {"upsert"}
         ELSE /\ jobs' = [jobs EXCEPT ![j] = Returned("edit", "done")]
              /\ UNCHANGED remoteLog
    /\ UNCHANGED <<themed, otherVars, isSyncing, now, table, bucket, selectedIds, notified, fetched>>

\* handleDeleteBill(id), the operator confirming: when configured a
\* deleteBillFromSupabase that is not awaited, then the local removal.
handleDeleteBill(j, id) ==
    /\ FreeJob(j)
    /\ id \in Ids(allBills)
    /\ allBills' = FilterOutId(allBills, id)
    /\ IF isConfigured
         THEN /\ jobs' = [jobs EXCEPT ![j] = [IdleJob EXCEPT !.kind = "remove", !.pc = "detached", !.sel = {id}, !.calls = [k \in {id} |-> deleteBillFromSupabase(id)]]]
              /\ remoteLog' = remoteLog \cup {"select"}
         ELSE /\ jobs' = [jobs EXCEPT ![j] = Returned("remove", "done")]
              /\ UNCHANGED remoteLog
    /\ UNCHANGED <<themed, otherVars, isSyncing, now, table, bucket, selectedIds, notified, fetched>>

\* ------------------------------ the edit, bulk and delete handlers at work
\* A session on the first date whose store holds a scanned bill and a
\* quick-added one, both PENDING; when configured the two records are in
\* the table, the scan's image is in the bucket and the store is the result
\* of the subscription's fetch.
ScannedBill == newBill(1, [customerName |-> "", address |-> "", invoiceNo |-> <<"a">>, billDate |-> ""], CHOOSE img \in DataUrls : TRUE, null, DateSeq[1], FALSE, 0, 0)

OpsStore(configured) == <<StoredBill(2, <<"A", " ">>), IF configured THEN Spread(ScannedBill, [imageUrl |-> publicUrl(fileName(1, 0))]) ELSE ScannedBill>>

InitOps == /\ OpsInit
           /\ themed = NoTheme
           /\ isConfigured \in BOOLEAN
           /\ allBills = OpsStore(isConfigured)
           /\ currentDate = DateSeq[1]
           /\ isSyncing = FALSE
           /\ loadingId = "null"
           /\ duplicateAlert = null
           /\ tasks = [t \in Tasks |-> IdleTask]
           /\ nextId = 3
           /\ now = 0
           /\ table = IF isConfigured THEN {allBills[i] : i \in 1..Len(allBills)} ELSE {}
           /\ bucket = IF isConfigured THEN {fileName(1, 0)} ELSE {}
           /\ remoteLog = IF isConfigured THEN {"upload", "upsert"} ELSE {}

\* The edits a bill's card sends to handleUpdateBill: the bill as the store
\* holds it with another box count.
Edits == {Spread(allBills[i], [boxCount |-> n]) : <<i, n>> \in {p \in (1..Len(allBills)) \X BoxCounts : allBills[p[1]].boxCount # p[2]}}

GroupNames == {"grp"}
GroupColors == {"", "red"}

NextOps == \/ \E id \in 1..2 : handleToggleSelect(id)
           \/ \E j \in Jobs, name \in GroupNames, color \in GroupColors : applyGroupSettings(j, name, color)
           \/ \E j \in Jobs : handlePackSelected(j)
           \/ \E j \in Jobs : handleDeleteSelected(j)
           \/ \E j \in Jobs, updated \in Edits : handleUpdateBill(j, updated)
           \/ \E j \in Jobs, id \in 1..2 : handleDeleteBill(j, id)
           \/ \E j \in Jobs, k \in 1..2 : SaveUpsertDone(j, k)
           \/ \E j \in Jobs, k \in 1..2 : SaveUpsertFail(j, k)
           \/ \E j \in Jobs, k \in 1..2, ok \in BOOLEAN : DeleteSelectSettled(j, k, ok)
           \/ \E j \in Jobs, k \in 1..2, removed \in BOOLEAN : DeleteImageSettled(j, k, removed)
           \/ \E j \in Jobs, k \in 1..2, ok \in BOOLEAN : DeleteRecordSettled(j, k, ok)
           \/ \E ok \in BOOLEAN : FetchSelect(ok)
           \/ \E rows \in fetched : \E bills \in Ordered(rows) : FetchDelivered(rows, bills)

SpecOps == InitOps /\ [][NextOps]_vars

\* ------------------------------------------ saveBillToSupabase by itself
\* The storage service of a configured session called with any bill of the
\* table, given a new box count or not, and with or without a new image.
SaveInputs == {Spread(r, [boxCount |-> n]) : r \in table, n \in BoxCounts}

\* A call of the exported saveBillToSupabase whose caller neither awaits it
\* nor touches the store.
Save(j, bill, imageBase64) ==
    /\ FreeJob(j)
    /\ jobs' = [jobs EXCEPT ![j] = [IdleJob EXCEPT !.kind = "save", !.pc = "detached", !.sel = {bill.id}, !.calls = [id \in {bill.id} |-> saveBillToSupabase(bill, imageBase64, now)]]]
    /\ remoteLog' = remoteLog \cup {IF imageBase64 \in DataUrls THEN (IF pathOf(bill.imageUrl) # NoPath THEN "remove" ELSE "upload") ELSE "upsert"}
    /\ UNCHANGED <<themed, otherVars, allBills, isSyncing, now, table, bucket, selectedIds, notified, fetched>>

InitSave == InitOps /\ isConfigured

NextSave == \/ \E j \in Jobs, bill \in SaveInputs, imageBase64 \in DataUrls \cup {Undefined} : Save(j, bill, imageBase64)
            \/ \E j \in Jobs, k \in 1..2, removed \in BOOLEAN : SaveCleanupSettled(j, k, removed)
            \/ \E j \in Jobs, k \in 1..2 : SaveUploadDone(j, k)
            \/ \E j \in Jobs, k \in 1..2 : SaveUploadFail(j, k)
            \/ \E j \in Jobs, k \in 1..2 : SaveUpsertDone(j, k)
            \/ \E j \in Jobs, k \in 1..2 : SaveUpsertFail(j, k)
            \/ \E j \in Jobs, k \in 1..2, removed \in BOOLEAN : SaveRollbackSettled(j, k, removed)

SpecSave == InitSave /\ [][NextSave]_vars

\* ------------------------------ creations beside edits and bulk updates
\* A session whose store holds one quick-added bill (in the table too when
\* configured) and whose clock has reached its last reading: one creation
\* attempt, its persist and its rollback run beside the edit, bulk and
\* delete handlers and the subscription.
AppTasks == {1}

AppQuickAdds == {[customerName |-> "", invoiceNo |-> <<"a">>, boxCount |-> 2, description |-> "grp"]}

AppIds == 2..3

InitApp == /\ OpsInit
           /\ themed = NoTheme
           /\ isConfigured \in BOOLEAN
           /\ allBills = <<StoredBill(2, <<"A", " ">>)>>
           /\ currentDate = DateSeq[1]
           /\ isSyncing = FALSE
           /\ loadingId = "null"
           /\ duplicateAlert = null
           /\ tasks = [t \in Tasks |-> IdleTask]
           /\ nextId = 3
           /\ now = MaxTime
           /\ table = IF isConfigured THEN {allBills[i] : i \in 1..Len(allBills)} ELSE {}
           /\ bucket = {}
           /\ remoteLog = IF isConfigured THEN {"upsert"} ELSE {}

NextApp == \/ \E t \in AppTasks, data \in AppQuickAdds : handleManualQuickAdd(t, data)
           \/ \E t \in AppTasks : UpsertDone(t)
           \/ \E t \in AppTasks : UpsertFail(t)
           \/ \E id \in AppIds : handleToggleSelect(id)
           \/ \E j \in Jobs, name \in GroupNames, color \in GroupColors : applyGroupSettings(j, name, color)
           \/ \E j \in Jobs : handlePackSelected(j)
           \/ \E j \in Jobs : handleDeleteSelected(j)
           \/ \E j \in Jobs, updated \in Edits : handleUpdateBill(j, updated)
           \/ \E j \in Jobs, id \in AppIds : handleDeleteBill(j, id)
           \/ \E j \in Jobs, k \in AppIds : SaveUpsertDone(j, k)
           \/ \E j \in Jobs, k \in AppIds : SaveUpsertFail(j, k)
           \/ \E j \in Jobs, k \in AppIds, ok \in BOOLEAN : DeleteSelectSettled(j, k, ok)
           \/ \E j \in Jobs, k \in AppIds, ok \in BOOLEAN : DeleteRecordSettled(j, k, ok)
           \/ \E ok \in BOOLEAN : FetchSelect(ok)
           \/ \E rows \in fetched : \E bills \in Ordered(rows) : FetchDelivered(rows, bills)

SpecApp == InitApp /\ [][NextApp]_vars

\* ------------------------------------------- edits and bulk updates alone
\* The session of InitOps with the edits of the bills' cards and, beside
\* them, an edit of a bill the store does not hold (a card's edit arriving
\* after its bill left the store); no delete and no subscription delivery.
StrayEdits == {Spread(StoredBill(3, <<"a">>), [boxCount |-> n]) : n \in BoxCounts}

FrameIds == 1..3

NextFrame == \/ \E id \in FrameIds : handleToggleSelect(id)
             \/ \E j \in Jobs, name \in GroupNames, color \in GroupColors : applyGroupSettings(j, name, color)
             \/ \E j \in Jobs : handlePackSelected(j)
             \/ \E j \in Jobs, updated \in Edits \cup StrayEdits : handleUpdateBill(j, updated)
             \/ \E j \in Jobs, k \in FrameIds : SaveUpsertDone(j, k)
             \/ \E j \in Jobs, k \in FrameIds : SaveUpsertFail(j, k)

SpecFrame == InitOps /\ [][NextFrame]_vars

\* ------------------------------------------------------------ the views
\* The values entryDate and currentDate take, listed in the ascending order
\* of JavaScript's comparison of strings (code unit by code unit, the empty
\* string first); for these strings localeCompare gives the same order.
ViewDateSeq == <<"", "2024-01-01", "2024-01-02", "2024-01-03">>

ViewDates == {ViewDateSeq[i] : i \in 1..Len(ViewDateSeq)}

DateRank(d) == CHOOSE i \in 1..Len(ViewDateSeq) : ViewDateSeq[i] = d

\* a < b on two date strings.
StringLess(a, b) == DateRank(a) < DateRank(b)

\* Array.prototype.sort with a comparator that orders by the key rank[i] of
\* element i, ascending; the sort is stable.
SortedBy(s, rank) == LET pos(i) == Cardinality({k \in DOMAIN s : rank[k] < rank[i] \/ (rank[k] = rank[i] /\ k < i)}) + 1 IN [p \in DOMAIN s |-> s[CHOOSE i \in DOMAIN s : pos(i) = p]]

\* allBills.filter(b => b.entryDate === currentDate).sort((a, b) => b.createdAt - a.createdAt)
todayNewBills == LET kept == SelectSeq(allBills, LAMBDA b : b.entryDate = currentDate) IN SortedBy(kept, [i \in DOMAIN kept |-> 0 - kept[i].createdAt])

\* Faulty variant: the backlog takes the bills of the viewed date too.
backlogBills_OnOrBefore == LET kept == SelectSeq(allBills, LAMBDA b : b.status = PENDING /\ ~StringLess(currentDate, b.entryDate)) IN SortedBy(kept, [i \in DOMAIN kept |-> DateRank(kept[i].entryDate)])

\* Faulty variant: the comparator's arguments are swapped, b before a.
backlogBills_NewestFirst == LET kept == SelectSeq(allBills, LAMBDA b : b.status = PENDING /\ StringLess(b.entryDate, currentDate)) IN SortedBy(kept, [i \in DOMAIN kept |-> 0 - DateRank(kept[i].entryDate)])

\* allBills.filter(b => b.status === PackingStatus.PENDING && b.entryDate < currentDate)
\*         .sort((a, b) => a.entryDate.localeCompare(b.entryDate))
backlogBills == LET kept == SelectSeq(allBills, LAMBDA b : b.status = PENDING /\ StringLess(b.entryDate, currentDate)) IN SortedBy(kept, [i \in DOMAIN kept |-> DateRank(kept[i].entryDate)])

\* An offline session whose store holds at most two bills of any entry
\* date, status and creation time, the operator picking the viewed date.
ViewBill(id, date, status, t) == IF status = PACKED THEN Spread(StoredBill(id, <<>>), [entryDate |-> date, status |-> PACKED, packedAt |-> t, createdAt |-> t, updatedAt |-> t]) ELSE Spread(StoredBill(id, <<>>), [entryDate |-> date, createdAt |-> t, updatedAt |-> t])

ViewBills(id) == {ViewBill(id, d, st, t) : d \in ViewDates, st \in {PENDING, PACKED}, t \in 0..MaxTime}

ViewStores == {<<>>} \cup {<<b>> : b \in ViewBills(1)} \cup {<<a, b>> : a \in ViewBills(2), b \in ViewBills(1)}

InitView == /\ OpsInit
            /\ themed = NoTheme
            /\ allBills \in ViewStores
            /\ currentDate = ViewDateSeq[2]
            /\ isConfigured = FALSE
            /\ isSyncing = FALSE
            /\ loadingId = "null"
            /\ duplicateAlert = null
            /\ tasks = [t \in Tasks |-> IdleTask]
            /\ nextId = Len(allBills) + 1
            /\ now = MaxTime
            /\ table = {}
            /\ bucket = {}
            /\ remoteLog = {}

NextView == \E d \in ViewDates : PickDate(d)

SpecView == InitView /\ [][NextView]_vars

\* ------------------------------------------------------------ the themes
COLOR_PALETTE == <<[name |-> "slate", bg |-> "bg-slate-50", border |-> "border-slate-200", text |-> "text-slate-900", ring |-> "ring-slate-500"], [name |-> "red", bg |-> "bg-red-50", border |-> "border-red-200", text |-> "text-red-900", ring |-> "ring-red-500"], [name |-> "orange", bg |-> "bg-orange-50", border |-> "border-orange-200", text |-> "text-orange-900", ring |-> "ring-orange-500"], [name |-> "amber", bg |-> "bg-amber-50", border |-> "border-amber-200", text |-> "text-amber-900", ring |-> "ring-amber-500"], [name |-> "green", bg |-> "bg-emerald-50", border |-> "border-emerald-200", text |-> "text-emerald-900", ring |-> "ring-emerald-500"], [name |-> "teal", bg |-> "bg-teal-50", border |-> "border-teal-200", text |-> "text-teal-900", ring |-> "ring-teal-500"], [name |-> "blue", bg |-> "bg-blue-50", border |-> "border-blue-200", text |-> "text-blue-900", ring |-> "ring-blue-500"], [name |-> "indigo", bg |-> "bg-indigo-50", border |-> "border-indigo-200", text |-> "text-indigo-900", ring |-> "ring-indigo-500"], [name |-> "purple", bg |-> "bg-purple-50", border |-> "border-purple-200", text |-> "text-purple-900", ring |-> "ring-purple-500"], [name |-> "pink", bg |-> "bg-pink-50", border |-> "border-pink-200", text |-> "text-pink-900", ring |-> "ring-pink-500"]>>

\* String.prototype.charCodeAt for the characters of Chars.
charCodeAt(c) == IF c = "a" THEN 97 ELSE IF c = "A" THEN 65 ELSE IF c = "1" THEN 49 ELSE 32

\* A number of the code is a double.  One that may leave the range of a
\* 32-bit integer is held in two parts, hi * 65536 + lo with lo in
\* 0..65535, so that its value is kept exactly.
Num(hi, lo) == [hi |-> hi + (lo \div 65536), lo |-> lo % 65536]

\* ToInt32, which `<<` applies to its left operand: the number modulo 2^32,
\* as a signed 32-bit integer.
ToInt32(h) == LET top == h.hi % 65536 IN (IF top >= 32768 THEN top - 65536 ELSE top) * 65536 + h.lo

\* w << 5 for a 32-bit integer w: the low 27 bits move up by five places
\* and bit 26 becomes the sign.
Shl5(h) == IF (h \div 67108864) % 2 = 1 THEN ((h % 67108864) * 32 - 2147483647) - 1 ELSE (h % 67108864) * 32

\* The loop of getThemeStyles over the characters of s, from hash h on:
\* hash = description.charCodeAt(i) + ((hash << 5) - hash).
RECURSIVE hashFrom(_, _)
hashFrom(h, s) == IF s = <<>> THEN h ELSE LET shifted == Shl5(ToInt32(h)) IN hashFrom(Num((shifted \div 65536) - h.hi, ((shifted % 65536) - h.lo) + charCodeAt(Head(s))), Tail(s))

\* Math.abs
Abs(x) == IF x.hi < 0 THEN Num(0 - x.hi, 0 - x.lo) ELSE x

\* x % n of JavaScript for a small positive n: the remainder has the sign
\* of x.
RemNonNeg(x, n) == ((x.hi % n) * (65536 % n) + (x.lo % n)) % n

Rem(x, n) == IF x.hi < 0 THEN 0 - RemNonNeg(Abs(x), n) ELSE RemNonNeg(x, n)

\* arr[index] of a JavaScript array, indices from 0: undefined when the
\* array has no element there.
NoEntry == [name |-> Undefined]

At(arr, index) == IF index \in 0..(Len(arr) - 1) THEN arr[index + 1] ELSE NoEntry

\* COLOR_PALETTE.find(c => c.name === colorName): the index of the first
\* entry of that name, 0 when there is none.
FindTheme(colorName) == IF \E i \in 1..Len(COLOR_PALETTE) : COLOR_PALETTE[i].name = colorName THEN CHOOSE i \in 1..Len(COLOR_PALETTE) : COLOR_PALETTE[i].name = colorName /\ \A k \in 1..(i - 1) : COLOR_PALETTE[k].name # colorName ELSE 0

\* Faulty variant: the hash of the description is looked at before the
\* chosen colour.
getThemeStyles_HashFirst(colorName, description) == IF description # <<>> /\ Len(trim(description)) > 0 THEN At(COLOR_PALETTE, Rem(Abs(hashFrom(Num(0, 0), description)), Len(COLOR_PALETTE))) ELSE IF colorName # Undefined /\ colorName # "" /\ FindTheme(colorName) # 0 THEN COLOR_PALETTE[FindTheme(colorName)] ELSE COLOR_PALETTE[1]

\* Faulty variant: the index is the remainder of the hash itself, without
\* Math.abs.
getThemeStyles_NoAbs(colorName, description) == IF colorName # Undefined /\ colorName # "" /\ FindTheme(colorName) # 0 THEN COLOR_PALETTE[FindTheme(colorName)] ELSE IF description # <<>> /\ Len(trim(description)) > 0 THEN At(COLOR_PALETTE, Rem(hashFrom(Num(0, 0), description), Len(COLOR_PALETTE))) ELSE COLOR_PALETTE[1]

\* getThemeStyles(colorName, description); a colorName that is undefined
\* or the empty string is falsy, and so is the empty description, which
\* stands for the undefined one too.
getThemeStyles(colorName, description) == IF colorName # Undefined /\ colorName # "" /\ FindTheme(colorName) # 0 THEN COLOR_PALETTE[FindTheme(colorName)] ELSE IF description # <<>> /\ Len(trim(description)) > 0 THEN At(COLOR_PALETTE, Rem(Abs(hashFrom(Num(0, 0), description)), Len(COLOR_PALETTE))) ELSE COLOR_PALETTE[1]

\* A card resolves its theme.
ResolveTheme == /\ themed.styles = null
                /\ themed' = [themed EXCEPT !.styles = getThemeStyles(themed.colorName, themed.description)]
                /\ UNCHANGED <<allBills, currentDate, isConfigured, isSyncing, loadingId, duplicateAlert, tasks, nextId, now, table, bucket, remoteLog, opsVars>>

\* The colorTheme and the description of a card: no colour, the empty
\* one, two of the palette and one that is not of the palette; every
\* description of at most MaxDesc characters.
ThemeColors == {Undefined, "", "red", "pink", "mauve"}

RECURSIVE DescriptionsOfLen(_)
DescriptionsOfLen(n) == IF n = 0 THEN {<<>>} ELSE {<<c>> \o s : c \in Chars, s \in DescriptionsOfLen(n - 1)}

ThemeDescriptions == UNION {DescriptionsOfLen(n) : n \in 0..MaxDesc}

InitTheme == /\ OpsInit
             /\ themed \in [colorName : ThemeColors, description : ThemeDescriptions, styles : {null}]
             /\ allBills = <<>>
             /\ currentDate = DateSeq[1]
             /\ isConfigured = FALSE
             /\ isSyncing = FALSE
             /\ loadingId = "null"
             /\ duplicateAlert = null
             /\ tasks = [t \in Tasks |-> IdleTask]
             /\ nextId = 1
             /\ now = 0
             /\ table = {}
             /\ bucket = {}
             /\ remoteLog = {}

NextTheme == ResolveTheme

SpecTheme == InitTheme /\ [][NextTheme]_vars

\* ============================================================ properties

Persisting(task) == task.pc \in {"upload", "upsert", "cleanup"}

\* Task t calls createBill in this step.
Creates(t) == tasks[t].newBill.id = 0 /\ tasks'[t].newBill.id # 0

RemoteUnchanged == table' = table /\ bucket' = bucket /\ remoteLog' = remoteLog

\* The image a creation attempt carries into createBill.
SuppliedImage(t) == IF tasks'[t].kind = "scan" THEN tasks[t].base64Image ELSE IF tasks'[t].kind = "copy" THEN duplicateAlert.base64 ELSE Undefined

\* C1: when the persist of a configured creation fails, the step that ends
\* the attempt leaves the local store exactly as it was before createBill
\* ran (new id absent, earlier bills present, same count), provided nothing
\* else wrote the store during the attempt.
RolledBackClean(t) ==
    /\ allBills' = tasks[t].before
    /\ tasks[t].newBill.id \notin Ids(allBills')
    /\ Ids(tasks[t].before) \subseteq Ids(allBills')
    /\ Len(allBills') = Len(tasks[t].before)

C1_CreationRollback == [][\A t \in Tasks : (Persisting(tasks[t]) /\ tasks'[t].outcome = "rolledback" /\ tasks[t].untouched) => RolledBackClean(t)]_vars

C1_Witness ==
    /\ isConfigured
    /\ allBills # <<>>
    /\ \E t \in Tasks : tasks[t].outcome = "rolledback" /\ tasks[t].untouched /\ tasks[t].newBill.id \notin Ids(allBills)

\* C2 (as amended): offline, a createBill call prepends exactly one bill
\* whose imageUrl is the embedded image when the attempt carried one and the
\* empty string otherwise, and nothing is ever sent to the backend.
OfflineCreated(t) ==
    /\ tasks'[t].outcome = "local"
    /\ Tail(allBills') = allBills
    /\ Head(allBills').id = tasks'[t].newBill.id
    /\ Head(allBills').imageUrl = (IF SuppliedImage(t) \in DataUrls THEN SuppliedImage(t) ELSE "")

NoRemoteCall ==
    /\ remoteLog' = {}
    /\ table' = {}
    /\ bucket' = {}
    /\ \A t \in Tasks : ~Persisting(tasks'[t])

C2_OfflineCreation == [][~isConfigured => (NoRemoteCall /\ \A t \in Tasks : Creates(t) => OfflineCreated(t))]_vars

C2_Witness ==
    /\ ~isConfigured
    /\ Len(allBills) = 2
    /\ allBills[1].imageUrl = ""
    /\ allBills[2].imageUrl \in DataUrls
    /\ \A t \in Tasks : tasks[t].outcome = "local"

\* C2 (as claimed): offline, every createBill call, a blank add and a
\* quick-add included, prepends one bill whose imageUrl is the embedded
\* image, and nothing is sent to the backend.
OfflineCreatedWithImage(t) ==
    /\ tasks'[t].outcome = "local"
    /\ Tail(allBills') = allBills
    /\ Head(allBills').id = tasks'[t].newBill.id
    /\ Head(allBills').imageUrl \in DataUrls

C2_Original == [][~isConfigured => (NoRemoteCall /\ \A t \in Tasks : Creates(t) => OfflineCreatedWithImage(t))]_vars

\* C3: the step in which a scan finds a duplicate writes neither the local
\* store nor the backend, and opens the alert with the bill found, the
\* extracted fields and the pending image; and a scan whose check finds a
\* duplicate does not go on to createBill.
HaltedOnDuplicate(t) ==
    /\ allBills' = allBills
    /\ tasks[t].untouched => allBills' = tasks[t].bills
    /\ RemoteUnchanged
    /\ nextId' = nextId
    /\ tasks'[t].newBill.id = 0
    /\ duplicateAlert' # null
    /\ \E i \in 1..Len(tasks[t].bills) : duplicateAlert'.existing = tasks[t].bills[i]
    /\ duplicateAlert'.newData = tasks'[t].extracted
    /\ duplicateAlert'.base64 = tasks[t].base64Image

ScanBlocks(t) == tasks[t].pc = "extract" /\ tasks'[t].outcome = "blocked"

ScanCreates(t) == tasks[t].pc = "extract" /\ Creates(t)

C3_DuplicateHalt == [][\A t \in Tasks : (ScanBlocks(t) => HaltedOnDuplicate(t)) /\ (ScanCreates(t) => duplicate(tasks[t].bills, Head(allBills').invoiceNo) = 0)]_vars

C3_Witness ==
    \E t \in Tasks :
        /\ tasks[t].outcome = "blocked"
        /\ tasks[t].untouched
        /\ duplicateAlert # null
        /\ duplicateAlert.newData = tasks[t].extracted
        /\ duplicateAlert.base64 \in DataUrls
        /\ \E i \in 1..Len(allBills) : allBills[i] = duplicateAlert.existing

\* The part of s between its leading and its trailing whitespace, when that
\* part is not empty (a set of at most one string).
Cores(s) == {SubSeq(s, i, j) : <<i, j>> \in {p \in (1..Len(s)) \X (1..Len(s)) : p[1] <= p[2] /\ s[p[1]] \notin Whitespace /\ s[p[2]] \notin Whitespace /\ (\A k \in 1..(p[1] - 1) : s[k] \in Whitespace) /\ (\A k \in (p[2] + 1)..Len(s) : s[k] \in Whitespace)}}

SameLetter(c, d) == c = d \/ {c, d} = {"a", "A"}

CaseVariant(x, y) == Len(x) = Len(y) /\ \A k \in 1..Len(x) : SameLetter(x[k], y[k])

\* a and b differ only in letter case or leading/trailing whitespace and
\* are not empty once that whitespace is removed.
DifferOnlyInCaseOrPadding(a, b) == \E x \in Cores(a), y \in Cores(b) : CaseVariant(x, y)

IsBlank(s) == \A k \in 1..Len(s) : s[k] \in Whitespace

\* C4: a scan whose extracted invoice number differs only in letter case or
\* leading/trailing whitespace from that of a bill in the store it checks
\* never goes on to createBill: the bill is reported as a duplicate.
NoVariantStored(t) == \A i \in 1..Len(tasks[t].bills) : ~DifferOnlyInCaseOrPadding(tasks[t].bills[i].invoiceNo, Head(allBills').invoiceNo)

C4_DuplicateNormalization == [][\A t \in Tasks : ScanCreates(t) => NoVariantStored(t)]_vars

C4_Witness ==
    /\ tasks[1].outcome = "blocked"
    /\ duplicateAlert # null
    /\ duplicateAlert.existing.invoiceNo = <<"A", " ">>
    /\ duplicateAlert.newData.invoiceNo = <<" ", "a">>

\* C5: the duplicate check reports nothing for an empty store and nothing
\* for a candidate that is empty or whitespace only, whatever the store holds.
C5_EmptyNeverMatches == [][\A t \in Tasks : ScanBlocks(t) => (tasks[t].bills # <<>> /\ ~IsBlank(tasks'[t].extracted.invoiceNo))]_vars

C5_Witness ==
    /\ tasks[1].newBill.id # 0
    /\ Len(allBills) = 3
    /\ allBills[1].invoiceNo = <<" ">>
    /\ allBills[2].invoiceNo = <<>>
    /\ allBills[3].invoiceNo = <<" ">>

\* C6: while the alert stays open the blocked scan creates nothing and no
\* stored bill is rewritten; "Save Copy" closes the alert and prepends one
\* bill with a fresh id carrying the alert's fields and image, whatever the
\* store holds; "Ignore" closes the alert and writes nothing.
NoMerge == \A i \in 1..Len(allBills), j \in 1..Len(allBills') : allBills[i].id = allBills'[j].id => allBills[i] = allBills'[j]

AlertStaysOpen == duplicateAlert # null /\ duplicateAlert' # null

SavesCopy(t) == duplicateAlert # null /\ tasks[t].kind # "copy" /\ tasks'[t].kind = "copy"

CopySaved(t) ==
    /\ duplicateAlert' = null
    /\ Tail(allBills') = allBills
    /\ Head(allBills').id \notin Ids(allBills)
    /\ Head(allBills').id = tasks'[t].newBill.id
    /\ Head(allBills').invoiceNo = duplicateAlert.newData.invoiceNo
    /\ Head(allBills').customerName = duplicateAlert.newData.customerName
    /\ Head(allBills').address = duplicateAlert.newData.address
    /\ Head(allBills').billDate = duplicateAlert.newData.billDate
    /\ IF isConfigured THEN tasks'[t].pc = "upload" ELSE Head(allBills').imageUrl = duplicateAlert.base64

Ignores == duplicateAlert # null /\ duplicateAlert' = null /\ \A t \in Tasks : ~SavesCopy(t)

Ignored == allBills' = allBills /\ RemoteUnchanged /\ nextId' = nextId /\ tasks' = tasks

C6_OperatorResolution == [][/\ AlertStaysOpen => (NoMerge /\ \A t \in Tasks : Blocked(t) => (tasks'[t].outcome = "blocked" /\ tasks'[t].newBill.id = 0))
                            /\ \A t \in Tasks : SavesCopy(t) => CopySaved(t)
                            /\ Ignores => Ignored]_vars

C6_Witness ==
    \E t \in Tasks :
        /\ tasks[t].kind = "copy"
        /\ duplicateAlert = null
        /\ Len(allBills) = 2
        /\ allBills[1].id = tasks[t].newBill.id
        /\ allBills[1].invoiceNo # <<>>
        /\ IsDuplicateOf(allBills[2], normalizedNew(allBills[1].invoiceNo))

\* C7: a quick-add always runs createBill and never opens the duplicate
\* alert, also when its invoice number matches one already in the store.
RunsQuickAdd(t) == tasks[t].pc = "idle" /\ tasks'[t].kind = "quick"

QuickAdded(t) ==
    /\ duplicateAlert' = null
    /\ tasks'[t].outcome # "blocked"
    /\ Creates(t)
    /\ Tail(allBills') = allBills
    /\ Head(allBills').id = tasks'[t].newBill.id

C7_QuickAddBypass == [][\A t \in Tasks : RunsQuickAdd(t) => QuickAdded(t)]_vars

C7_Witness ==
    \E t \in Tasks :
        /\ tasks[t].kind = "quick"
        /\ Len(allBills) = 2
        /\ allBills[1].id = tasks[t].newBill.id
        /\ Len(normalizedNew(allBills[1].invoiceNo)) > 0
        /\ IsDuplicateOf(allBills[2], normalizedNew(allBills[1].invoiceNo))

\* C8: when reading, compressing or extracting throws, the step that ends
\* handleAddBill writes neither the local store nor the backend.
ScanAborts(t) == tasks[t].pc = "extract" /\ tasks'[t].outcome = "aborted"

Aborted(t) ==
    /\ allBills' = allBills
    /\ tasks[t].untouched => allBills' = tasks[t].bills
    /\ RemoteUnchanged
    /\ nextId' = nextId
    /\ tasks'[t].newBill.id = 0
    /\ \A u \in Tasks : ~Creates(u)

C8_ExtractionFailureAborts == [][\A t \in Tasks : ScanAborts(t) => Aborted(t)]_vars

C8_Witness == \E t \in Tasks : tasks[t].outcome = "aborted" /\ tasks[t].untouched /\ allBills # <<>>

\* C9: the step in which createBill runs puts the new bill at the head of
\* the local store, configured or not, and the record is not yet in the
\* table; the persist completes in a later step.
InsertedFirst(t) ==
    /\ Len(allBills') = Len(allBills) + 1
    /\ Tail(allBills') = allBills
    /\ Head(allBills').id = tasks'[t].newBill.id
    /\ tasks'[t].newBill.id \notin Ids(allBills)
    /\ \A r \in table' : r.id # tasks'[t].newBill.id
    /\ isConfigured => Persisting(tasks'[t])

C9_OptimisticInsert == [][\A t \in Tasks : Creates(t) => InsertedFirst(t)]_vars

C9_Witness ==
    \E t \in Tasks :
        /\ Persisting(tasks[t])
        /\ tasks[t].newBill.id \in Ids(allBills)
        /\ \A r \in table : r.id # tasks[t].newBill.id

\* C10: every bill createBill constructs is PENDING without packedAt, has
\* its four flags false, boxCount 0 and description empty unless a
\* quick-add supplied them, entryDate equal to the date viewed when it is
\* created, and createdAt and updatedAt read from the clock at creation.
ConstructedAsClaimed(t, b) ==
    /\ b.status = PENDING
    /\ "packedAt" \notin DOMAIN b
    /\ ~b.isDelivery /\ ~b.hasCRN /\ ~b.isEditedBill /\ ~b.isAdditionalBill
    /\ tasks'[t].kind # "quick" => (b.boxCount = 0 /\ b.description = "")
    /\ b.entryDate = currentDate
    /\ now <= b.createdAt /\ b.createdAt <= b.updatedAt /\ b.updatedAt <= now'

C10_NewBillConstruction == [][\A t \in Tasks : Creates(t) => ConstructedAsClaimed(t, Head(allBills'))]_vars
\* C11: handleUpdateBill puts the edited bill in place of the bill with its
\* id in the same step, every other bill staying as it was and, when
\* configured, before its persist has written the table; and the step in
\* which that persist fails leaves the local store as it is.
EditStarts(j) == jobs[j].pc = "idle" /\ jobs'[j].kind = "edit"

EditedInPlace(j) ==
    /\ Len(allBills') = Len(allBills)
    /\ \E i \in 1..Len(allBills) :
          /\ allBills'[i] # allBills[i]
          /\ allBills'[i].id = allBills[i].id
          /\ \A n \in 1..Len(allBills) : n # i => allBills'[n] = allBills[n]
          /\ isConfigured => (allBills[i].id \in DOMAIN jobs'[j].calls /\ jobs'[j].calls[allBills[i].id].pc = "upsert" /\ jobs'[j].calls[allBills[i].id].finalBill = allBills'[i])
    /\ table' = table

EditFails(j) == jobs[j].kind = "edit" /\ jobs[j].pc = "detached" /\ jobs'[j].pc = "dropped"

C11_EditNeverRolledBack == [][\A j \in Jobs : (EditStarts(j) => EditedInPlace(j)) /\ (EditFails(j) => allBills' = allBills)]_vars

C11_Witness ==
    \E j \in Jobs :
        /\ jobs[j].kind = "edit"
        /\ jobs[j].pc = "dropped"
        /\ \E i \in 1..Len(allBills) : \E r \in table : r.id = allBills[i].id /\ r.boxCount # allBills[i].boxCount

\* C12: when every selected id is a PENDING bill of the store, the step of
\* handlePackSelected leaves exactly the selected bills newly PACKED, all
\* with one and the same packedAt, and every other bill as it was.
PackStarts(j) == jobs[j].pc = "idle" /\ jobs'[j].kind = "pack"

AllSelectedPending == \A id \in selectedIds : \E i \in 1..Len(allBills) : allBills[i].id = id /\ allBills[i].status = PENDING

NewlyPacked == {i \in 1..Len(allBills) : allBills[i].status = PENDING /\ allBills'[i].status = PACKED}

PackedTogether ==
    /\ Len(allBills') = Len(allBills)
    /\ \A i \in 1..Len(allBills) : allBills'[i].id = allBills[i].id
    /\ {allBills[i].id : i \in NewlyPacked} = selectedIds
    /\ Cardinality(NewlyPacked) = Cardinality(selectedIds)
    /\ \A i \in NewlyPacked : "packedAt" \in DOMAIN allBills'[i]
    /\ \A i, k \in NewlyPacked : allBills'[i].packedAt = allBills'[k].packedAt
    /\ \A i \in 1..Len(allBills) : allBills[i].id \notin selectedIds => allBills'[i] = allBills[i]

C12_BulkPack == [][\A j \in Jobs : (PackStarts(j) /\ AllSelectedPending) => PackedTogether]_vars

C12_Witness ==
    /\ \E j \in Jobs : jobs[j].kind = "pack" /\ jobs[j].sel = {1, 2}
    /\ Len(allBills) = 2
    /\ allBills[1].status = PACKED /\ allBills[2].status = PACKED
    /\ allBills[1].packedAt = allBills[2].packedAt

\* C13 (as amended): the step of applyGroupSettings or handlePackSelected
\* gives every selected bill of the store its new state at once and before
\* any record of the batch is written; and while the batch is in flight,
\* no other handler having run, no step other than the delivery of a
\* subscription fetch leaves the store with some bills of the batch
\* carrying its change and others not.
BulkStarts(j) == jobs[j].pc = "idle" /\ jobs'[j].kind \in {"pack", "retag"}

AppliedAtOnce(j) ==
    /\ table' = table
    /\ \A i \in 1..Len(allBills) : allBills[i].id \in selectedIds => allBills'[i].updatedAt = now'
    /\ jobs'[j].pc = "await" => \A i \in 1..Len(allBills') : allBills'[i].id \in selectedIds => jobs'[j].calls[allBills'[i].id].bill = allBills'[i]

\* The fields the batch of job j writes, other than updatedAt.
Written(j, b) == IF jobs[j].kind = "pack" THEN <<b.status, IF "packedAt" \in DOMAIN b THEN b.packedAt ELSE -1>> ELSE <<b.description, IF "colorTheme" \in DOMAIN b THEN b.colorTheme ELSE "">>

HasChange(j, b) == Written(j, b) = Written(j, jobs[j].calls[b.id].bill)

InFlightAlone(j) == jobs[j].kind \in {"pack", "retag"} /\ jobs[j].pc \in {"await", "thrown"} /\ \A u \in Jobs : u # j => jobs[u].pc = "idle"

PartiallyApplied(j) == \E a, b \in 1..Len(allBills) :
    /\ allBills[a].id \in DOMAIN jobs[j].calls
    /\ allBills[b].id \in DOMAIN jobs[j].calls
    /\ HasChange(j, allBills[a])
    /\ ~HasChange(j, allBills[b])

NeverPartial == \A j \in Jobs : InFlightAlone(j) => ~PartiallyApplied(j)

\* The step is the delivery of a fetch to the subscription's callback.
Refreshes == fetched' # fetched /\ fetched' \subseteq fetched

C13_BulkAtomicity == [][(\A j \in Jobs : BulkStarts(j) => AppliedAtOnce(j)) /\ ((NeverPartial /\ ~Refreshes) => NeverPartial')]_vars

C13_Witness ==
    \E j \in Jobs :
        /\ InFlightAlone(j)
        /\ jobs[j].pc = "await"
        /\ jobs[j].sel = {1, 2}
        /\ \A i \in 1..Len(allBills) : allBills[i] = jobs[j].calls[allBills[i].id].bill
        /\ \A r \in table : \A i \in 1..Len(allBills) : r # allBills[i]

\* C13 (as claimed): the bulk step applies the whole batch at once, and no
\* reachable state of the store, a batch being in flight and no other
\* handler having run, shows some of its bills with the batch's change and
\* others without it.
C13_Original == [][(\A j \in Jobs : BulkStarts(j) => AppliedAtOnce(j)) /\ NeverPartial']_vars

\* C14: while a configured bulk retag, pack or delete has a remote
\* operation in flight, no other handler having run, the syncing
\* indicator is set.
BatchInFlightAlone(j) == jobs[j].kind \in {"pack", "retag", "delete"} /\ jobs[j].pc \in {"await", "thrown"} /\ (\E k \in DOMAIN jobs[j].calls : ~Settled(jobs[j].calls[k])) /\ \A u \in Jobs : u # j => jobs[u].pc = "idle"

C14_BulkSyncingBarrier == \A j \in Jobs : BatchInFlightAlone(j) => isSyncing

\* C15: the step in which a persist of a bulk retag or pack settles,
\* rejected or not, leaves the other persists of the batch as they are
\* (in flight or settled) and the records of the other bills in the table;
\* and the step in which one is rejected leaves the local store as it is.
SaveSettles(j, k) == jobs[j].kind \in {"pack", "retag"} /\ InCall(j, k, "upsert") /\ (k \notin DOMAIN jobs'[j].calls \/ Settled(jobs'[j].calls[k]))

SiblingsUntouched(j, k) ==
    /\ \A s \in DOMAIN jobs[j].calls \ {k} : IF s \in DOMAIN jobs'[j].calls THEN jobs'[j].calls[s] = jobs[j].calls[s] ELSE Settled(jobs[j].calls[s])
    /\ \A r \in table : r.id # k => r \in table'

BatchThrows(j) == jobs[j].pc = "await" /\ jobs'[j].pc = "thrown"

C15_BulkPartialFailure == [][\A j \in Jobs : (BatchThrows(j) => allBills' = allBills) /\ \A k \in 1..2 : SaveSettles(j, k) => SiblingsUntouched(j, k)]_vars

C15_Witness ==
    /\ \E j \in Jobs : jobs[j].kind = "pack" /\ jobs[j].pc = "thrown" /\ jobs[j].calls = <<>>
    /\ \E r \in table : r.status = PACKED
    /\ \E r \in table : r.status = PENDING
    /\ Len(allBills) = 2
    /\ allBills[1].status = PACKED /\ allBills[2].status = PACKED

\* C16: handleDeleteBill removes its bill from the store in the step in
\* which it is called, configured or not; handleDeleteSelected removes the
\* selected bills at once when not configured, and when configured leaves
\* the store alone until the last of its remote deletes has settled, then
\* removes every selected id whatever those deletes did to the table.
SingleDeleteStarts(j) == jobs[j].pc = "idle" /\ jobs'[j].kind = "remove"

OneRemoved(j) == \E i \in 1..Len(allBills) :
    /\ allBills' = SubSeq(allBills, 1, i - 1) \o SubSeq(allBills, i + 1, Len(allBills))
    /\ allBills[i].id \notin Ids(allBills')
    /\ isConfigured => (allBills[i].id \in DOMAIN jobs'[j].calls /\ jobs'[j].calls[allBills[i].id].pc = "select")
    /\ table' = table

BulkDeleteStarts(j) == jobs[j].pc = "idle" /\ jobs'[j].kind = "delete"

BulkDeleteWaits(j) == jobs'[j].kind = "delete" /\ jobs'[j].pc = "await" /\ jobs'[j] # jobs[j]

BulkDeleteEnds(j) == jobs[j].kind = "delete" /\ jobs[j].pc = "await" /\ jobs'[j].pc # "await"

SelectionRemoved(sel) ==
    /\ Ids(allBills') \cap sel = {}
    /\ Ids(allBills') = Ids(allBills) \ sel

LastDeleteSettles(j) ==
    /\ jobs'[j].pc = "done"
    /\ Cardinality({k \in DOMAIN jobs[j].calls : ~Settled(jobs[j].calls[k])}) = 1

DeletesAsClaimed(j) ==
    /\ SingleDeleteStarts(j) => OneRemoved(j)
    /\ (BulkDeleteStarts(j) /\ ~isConfigured) => (jobs'[j].pc = "done" /\ SelectionRemoved(selectedIds))
    /\ BulkDeleteWaits(j) => allBills' = allBills
    /\ BulkDeleteEnds(j) => (LastDeleteSettles(j) /\ SelectionRemoved(jobs[j].sel))

C16_DeleteUnconditional == [][\A j \in Jobs : DeletesAsClaimed(j)]_vars

C16_Witness ==
    /\ isConfigured
    /\ \E j \in Jobs : jobs[j].kind = "delete" /\ jobs[j].pc = "done"
    /\ allBills = <<>>
    /\ Cardinality(table) = 2
    /\ \A j \in Jobs : jobs[j].kind \in {"delete", "none"}

\* C17: no promise of deleteBillFromSupabase is ever rejected, so that no
\* delete handler throws or drops a rejection; and the step in which the
\* removal of the image settles, the image removed or not, issues the
\* delete of the record.
NeverRaises == \A j \in Jobs :
    /\ \A k \in DOMAIN jobs[j].calls : jobs[j].calls[k].fn = "delete" => ~Rejected(jobs[j].calls[k])
    /\ jobs[j].kind \in {"delete", "remove"} => jobs[j].pc \notin {"thrown", "dropped"}

ImageRemovalSettles(j, k) == InCall(j, k, "remove") /\ ~InCall(j, k, "remove")'

RecordDeleteIssued(j, k) == InCall(j, k, "delete")' /\ "delete" \in remoteLog'

SaveRejects(j) == jobs[j].kind = "save" /\ jobs[j].pc = "detached" /\ jobs'[j].pc = "dropped"

SaveFulfils(j) == jobs[j].kind = "save" /\ jobs[j].pc = "detached" /\ jobs'[j].pc = "done"

\* C18 (as amended): when the upsert fails after this call uploaded an
\* image, the call does not throw in that step: it issues the removal of
\* the uploaded object and throws only once the removal has settled, and
\* the object is then gone unless the removal itself failed.
CompensatesFirst(j, k) ==
    /\ ~SaveRejects(j)
    /\ ~SaveFulfils(j) => (InCall(j, k, "rollback")' /\ "remove" \in remoteLog' /\ table' = table)

ThrowsAfterRemoval(j, k) ==
    /\ InCall(j, k, "rollback")
    /\ jobs[j].calls[k].newUploadedPath \notin bucket' \/ bucket' = bucket

UploadedThenUpsert(j, k) == InCall(j, k, "upsert") /\ jobs[j].calls[k].newUploadedPath # NoPath /\ ~InCall(j, k, "upsert")'

PriorImage(c) == pathOf(c.bill.imageUrl)

RemovesPrior(j, k) == InCall(j, k, jobs[j].calls[k].pc) /\ jobs[j].calls[k].fn = "save" /\ jobs[j].calls[k].imageBase64 \in DataUrls /\ PriorImage(jobs[j].calls[k]) \in bucket /\ PriorImage(jobs[j].calls[k]) \notin bucket'

UploadFails(j, k) == InCall(j, k, "upload") /\ SaveRejects(j)

PriorKept(j, k) == PriorImage(jobs[j].calls[k]) # NoPath => PriorImage(jobs[j].calls[k]) \in bucket'

AfterOwnUpload(j, k) == k \in DOMAIN jobs'[j].calls /\ jobs'[j].calls[k].newUploadedPath # NoPath

C19_OldImageCleanupOrdering == [][\A j \in Jobs, k \in 1..2 :
    /\ (k \in DOMAIN jobs[j].calls /\ RemovesPrior(j, k)) => AfterOwnUpload(j, k)
    /\ UploadFails(j, k) => PriorKept(j, k)]_vars

\* C20: a saveBillToSupabase given an image issues its upsert only in the
\* step in which its upload has succeeded, with the public URL of the
\* uploaded object as finalBill.imageUrl; the record it writes carries that
\* URL; and when the upload fails nothing is sent to the table.
WithImage(j, k) == k \in DOMAIN jobs'[j].calls /\ jobs'[j].calls[k].imageBase64 \in DataUrls

UpsertIssued(j, k) == WithImage(j, k) /\ jobs'[j].calls[k].pc = "upsert" /\ ~InCall(j, k, "upsert")

UploadedFirst(j, k) ==
    /\ InCall(j, k, "upload")
    /\ jobs[j].calls[k].fileName \in bucket'
    /\ jobs'[j].calls[k].finalBill.imageUrl = publicUrl(jobs[j].calls[k].fileName)
    /\ pathOf(jobs'[j].calls[k].finalBill.imageUrl) = jobs'[j].calls[k].newUploadedPath
    /\ table' = table

RecordWritten(j, k) == InCall(j, k, "upsert") /\ jobs[j].calls[k].imageBase64 \in DataUrls /\ SaveFulfils(j)

CarriesUploadedUrl(j, k) == \E r \in table' : r.id = k /\ r.imageUrl = publicUrl(jobs[j].calls[k].newUploadedPath) /\ jobs[j].calls[k].newUploadedPath # NoPath

C20_PersistOrdering == [][\A j \in Jobs, k \in 1..2 :
    /\ UpsertIssued(j, k) => UploadedFirst(j, k)
    /\ RecordWritten(j, k) => CarriesUploadedUrl(j, k)
    /\ UploadFails(j, k) => (table' = table /\ remoteLog' = remoteLog)]_vars

C20_Witness ==
    /\ \E r \in table : r.id = 1 /\ r.imageUrl = publicUrl(fileName(1, 1))
    /\ fileName(1, 1) \in bucket
    /\ \E j \in Jobs : jobs[j].kind = "save" /\ jobs[j].pc = "done"

\* C21: in a configured session the subscription answers every change
\* notification of the table by a fetch of the whole record set that is on
\* its way to the callback, and every delivery to the callback replaces the
\* local store by the rows delivered, in the order of the fetch.
NotificationTaken == notified /\ ~notified'

FetchOnItsWay == table \in fetched'

ReplacesStore == \E rows \in fetched \ fetched' : allBills' \in Ordered(rows)

C21_SubscriptionSnapshots == [][(NotificationTaken => FetchOnItsWay) /\ (Refreshes => ReplacesStore)]_vars

\* C22: in a configured session, whenever no remote operation of a handler
\* is in flight, no change notification is waiting and no fetch is on its
\* way, the local store holds exactly the records of the table.
NothingInFlight == /\ \A j \in Jobs : \A k \in DOMAIN jobs[j].calls : Settled(jobs[j].calls[k])
                   /\ \A t \in Tasks : tasks[t].pc \in {"idle", "done"}

Quiescent == isConfigured /\ NothingInFlight /\ ~notified /\ fetched = {}

Converged == Len(allBills) = Cardinality(table) /\ {allBills[i] : i \in 1..Len(allBills)} = table

C22_EventualConvergence == Quiescent => Converged

\* C23: for every store and every viewed date the today view and the
\* backlog view have no bill in common and list no bill twice, and together
\* they hold exactly the PENDING bills whose entryDate is on or before the
\* viewed date and the bills of any status whose entryDate is the viewed
\* date; a store of one PENDING bill dated 2024-01-01 viewed on 2024-01-03
\* has that bill in the backlog view and nothing in the today view.
Members(s) == {s[i] : i \in 1..Len(s)}

OnOrBefore(a, b) == a = b \/ StringLess(a, b)

Example23 == Len(allBills) = 1 /\ allBills[1].status = PENDING /\ allBills[1].entryDate = "2024-01-01" /\ currentDate = "2024-01-03"

C23_ViewPartition ==
    /\ Members(todayNewBills) \cap Members(backlogBills) = {}
    /\ Len(todayNewBills) = Cardinality(Members(todayNewBills))
    /\ Len(backlogBills) = Cardinality(Members(backlogBills))
    /\ Members(todayNewBills) \cup Members(backlogBills) = {b \in Members(allBills) : (b.status = PENDING /\ OnOrBefore(b.entryDate, currentDate)) \/ b.entryDate = currentDate}
    /\ Example23 => (backlogBills = allBills /\ todayNewBills = <<>>)

C23_Witness == Example23 /\ backlogBills = allBills /\ todayNewBills = <<>>

\* C24: in every state that creation, bulk retag, bulk pack and the
\* deletes produce, a PACKED bill of the local store has packedAt set and a
\* PENDING bill has none.
HasPackedAt(b) == "packedAt" \in DOMAIN b

C24_StatusPackedAt == \A i \in 1..Len(allBills) : (allBills[i].status = PACKED => HasPackedAt(allBills[i])) /\ (allBills[i].status = PENDING => ~HasPackedAt(allBills[i]))

C24_Witness ==
    /\ Len(allBills) = 2
    /\ allBills[1].id = 3 /\ allBills[1].status = PENDING /\ ~HasPackedAt(allBills[1])
    /\ allBills[2].status = PACKED /\ HasPackedAt(allBills[2])
    /\ \E j \in Jobs : jobs[j].kind = "pack"
    /\ \E j \in Jobs : jobs[j].kind = "retag"

\* C25: once a bill of the local store has packedAt set, no step of a
\* handler gives the bill another packedAt; in particular a bulk pack whose
\* selection holds a PACKED bill leaves that bill's packedAt as it was.
KeepsPackedAt(b) == \A i \in 1..Len(allBills') : allBills'[i].id = b.id => (HasPackedAt(allBills'[i]) /\ allBills'[i].packedAt = b.packedAt)

C25_PackedAtSetOnce == [][Refreshes \/ \A i \in 1..Len(allBills) : HasPackedAt(allBills[i]) => KeepsPackedAt(allBills[i])]_vars

\* C26: in every state that a creation, its rollback, edits, bulk
\* updates, deletes and subscription refreshes produce in any interleaving,
\* no two bills of the local store have the same id.
C26_IdUniqueness == \A i, k \in 1..Len(allBills) : i # k => allBills[i].id # allBills[k].id

C26_Witness ==
    /\ tasks[1].pc = "done" /\ tasks[1].outcome = "committed"
    /\ Len(allBills) = 2 /\ allBills[1].id = 3 /\ allBills[2].id = 2
    /\ \E j \in Jobs : jobs[j].kind = "edit"
    /\ \E j \in Jobs : jobs[j].kind \in {"retag", "pack"} /\ jobs[j].pc = "await" /\ PartiallyApplied(j)

\* C27: every bill of the local store has an entryDate that is not the
\* empty string, whatever date the operator has navigated to or picked.
C27_EntryDateNeverEmpty == \A i \in 1..Len(allBills) : allBills[i].entryDate # ""

\* C28: getThemeStyles returns the palette entry named by colorTheme when
\* the palette has one; else, for a description that is not blank, the
\* entry at the index the hash of the description gives; else the first
\* entry.  The entry is fixed by the two arguments alone.
Named(colorName) == {i \in 1..Len(COLOR_PALETTE) : COLOR_PALETTE[i].name = colorName}

NonBlank(description) == \E i \in 1..Len(description) : description[i] \notin Whitespace

HashIndex(description) == Rem(Abs(hashFrom(Num(0, 0), description)), 10) + 1

Resolved(colorName, description) == IF Named(colorName) # {} THEN COLOR_PALETTE[CHOOSE i \in Named(colorName) : TRUE] ELSE IF NonBlank(description) THEN COLOR_PALETTE[HashIndex(description)] ELSE COLOR_PALETTE[1]

C28_ThemeResolution == themed.styles # null => themed.styles = Resolved(themed.colorName, themed.description)

C28_Witness == themed.styles # null /\ themed.colorName = "pink" /\ NonBlank(themed.description) /\ HashIndex(themed.description) # 10 /\ themed.styles.name = "pink"

\* C29: a scan goes on to createBill only when, at the step in which its
\* check runs, no bill of the local store has its normalized invoice
\* number, whenever that bill came into the store.
C29_DuplicateCheckSeesStore == [][\A t \in Tasks : (ScanCreates(t) /\ Len(allBills') > 0) => duplicate(allBills, Head(allBills').invoiceNo) = 0]_vars

\* C30 (as amended): every step other than a delivery of the subscription
\* computes the store from the store as it is at that step: createBill puts
\* its bill before the bills the store holds, the rollback of a creation
\* removes that bill alone, a bulk retag or pack changes only the fields it
\* writes of the selected bills, an edit changes the one bill it is about,
\* and a step of any other kind only removes bills.  So no change made by
\* one handler is overwritten by a value another handler computed from an
\* older store.
SameBut(a, b, fields) == DOMAIN a \ fields = DOMAIN b \ fields /\ \A f \in DOMAIN a \ fields : a[f] = b[f]

Prepends == Len(allBills') = Len(allBills) + 1 /\ Tail(allBills') = allBills

RollsBack(t) == Persisting(tasks[t]) /\ tasks'[t].outcome = "rolledback"

BulkFields(kind) == IF kind = "pack" THEN {"status", "packedAt", "updatedAt"} ELSE {"description", "colorTheme", "updatedAt"}

WritesSelected(j) ==
    /\ Len(allBills') = Len(allBills)
    /\ \A i \in 1..Len(allBills) : IF allBills[i].id \in selectedIds THEN SameBut(allBills'[i], allBills[i], BulkFields(jobs'[j].kind)) ELSE allBills'[i] = allBills[i]

WritesOne ==
    /\ Len(allBills') = Len(allBills)
    /\ \E i \in 1..Len(allBills) : allBills'[i].id = allBills[i].id /\ \A n \in 1..Len(allBills) : n # i => allBills'[n] = allBills[n]

RemovesOnly == \E ids \in SUBSET Ids(allBills) : allBills' = FilterOutIds(allBills, ids)

OtherStep == /\ \A t \in Tasks : ~Creates(t) /\ ~RollsBack(t)
             /\ \A j \in Jobs : ~BulkStarts(j) /\ ~EditStarts(j)

FromLatest ==
    /\ \A t \in Tasks : Creates(t) => Prepends
    /\ \A t \in Tasks : RollsBack(t) => allBills' = FilterOutId(allBills, tasks[t].newBill.id)
    /\ \A j \in Jobs : BulkStarts(j) => WritesSelected(j)
    /\ \A j \in Jobs : EditStarts(j) => WritesOne
    /\ OtherStep => RemovesOnly

C30_NoLostUpdates == [][~Refreshes => FromLatest]_vars

\* A pack took in the bill of a creation that was then rolled back, and
\* the bill the store still holds is packed and carries an edit.
C30_Witness ==
    /\ tasks[1].outcome = "rolledback"
    /\ \E j, e \in Jobs :
          /\ jobs[j].kind = "pack" /\ jobs[j].pc = "await" /\ tasks[1].newBill.id \in DOMAIN jobs[j].calls
          /\ jobs[e].kind = "edit"
    /\ Len(allBills) = 1 /\ allBills[1].id = 2 /\ allBills[1].status = PACKED /\ allBills[1].boxCount = 0

\* C30 (as claimed): beside that, a delivery of the subscription leaves in
\* the store what a bulk retag or pack still in flight has written to it.
LosesChange == \E j \in Jobs, i \in 1..Len(allBills) :
    /\ jobs[j].kind \in {"pack", "retag"} /\ jobs[j].pc = "await"
    /\ allBills[i].id \in DOMAIN jobs[j].calls
    /\ HasChange(j, allBills[i])
    /\ \E n \in 1..Len(allBills') : allBills'[n].id = allBills[i].id /\ ~HasChange(j, allBills'[n])

C30_Original == [][(~Refreshes => FromLatest) /\ (Refreshes => ~LosesChange)]_vars

\* C31: two creation attempts in flight at the same time are independent.
\* A step of one attempt (its start, a stage of its persist, its commit or
\* its rollback) leaves the other attempt at the stage it was at, with the
\* bill it created, and leaves that bill in the local store; the commit of
\* an attempt leaves the store as it is and its rollback removes its own
\* bill alone; and the bill of every attempt that ended committed is in the
\* store.
InFlight(u) == Persisting(tasks[u])

StepOf(t) == tasks'[t].pc # tasks[t].pc

Undisturbed(u) ==
    /\ tasks'[u].pc = tasks[u].pc
    /\ tasks'[u].newBill = tasks[u].newBill
    /\ tasks'[u].finalBill = tasks[u].finalBill
    /\ \A i \in 1..Len(allBills) : allBills[i].id = tasks[u].newBill.id => \E n \in 1..Len(allBills') : allBills'[n] = allBills[i]

Commits(t) == InFlight(t) /\ tasks'[t].outcome = "committed"

CommittedKept == \A t \in Tasks : tasks[t].outcome = "committed" => tasks[t].newBill.id \in Ids(allBills)

NewestFirst(s) == \A i \in 1..(Len(s) - 1) : s[i].createdAt >= s[i + 1].createdAt

OldestFirst(s) == \A i \in 1..(Len(s) - 1) : ~StringLess(s[i + 1].entryDate, s[i].entryDate)

C32_ViewOrdering == NewestFirst(todayNewBills) /\ OldestFirst(backlogBills)

\* The operator picked a date; the store holds two bills of that date, the
\* older one first, and the today view lists them the other way round.
C32_Witness ==
    /\ currentDate = ViewDateSeq[3]
    /\ Len(allBills) = 2 /\ allBills[1].createdAt < allBills[2].createdAt
    /\ todayNewBills = <<allBills[2], allBills[1]>>

\* C33: whenever the remote operations of every handler have settled and
\* the subscription has nothing to deliver, the syncing indicator and the
\* loading indicator are clear; and the step in which a bulk retag, pack or
\* delete ends, its remote operations having succeeded or failed, leaves
\* the selection empty.
AllSettled == NothingInFlight /\ ~notified /\ fetched = {}

IndicatorsClear == ~isSyncing /\ loadingId = "null"

BulkEnds(j) == jobs[j].kind \in {"retag", "pack", "delete"} /\ jobs[j].pc = "await" /\ jobs'[j].pc # "await"

C33_BusyIndicatorsClear == [](AllSettled => IndicatorsClear) /\ [][\A j \in Jobs : BulkEnds(j) => selectedIds' = {}]_vars

\* C34: while no backend is configured, no handler has issued a remote
\* call (none is recorded, none is in flight, the table and the bucket are
\* untouched), the syncing indicator is off, and the subscription has
\* neither a notification nor rows to deliver to its callback.
NothingRemote == remoteLog = {} /\ table = {} /\ bucket = {} /\ \A j \in Jobs : DOMAIN jobs[j].calls = {}

NoSubscription == ~notified /\ fetched = {}

C34_OfflineIsolation == ~isConfigured => (NothingRemote /\ ~isSyncing /\ NoSubscription)

\* Offline, a bulk pack and then a bulk delete have run to their end.
C34_Witness ==
    /\ ~isConfigured
    /\ \E j, d \in Jobs : jobs[j].kind = "pack" /\ jobs[j].pc = "done" /\ jobs[d].kind = "delete" /\ jobs[d].pc = "done"
    /\ Len(allBills) = 1

\* C35: the step of handleUpdateBill, of a bulk retag and of a bulk pack
\* leaves the ids of the store as they are, in the same order; an edit of
\* a bill the store does not hold leaves the store as it is; a bulk retag
\* changes nothing but description, colorTheme and updatedAt of the
\* selected bills and a bulk pack nothing but status, packedAt and
\* updatedAt of the selected bills, so that id, createdAt, entryDate,
\* invoiceNo and imageUrl of every bill stay as they are.
IdsInOrder(bills) == [i \in 1..Len(bills) |-> bills[i].id]

KeptFields == {"id", "createdAt", "entryDate", "invoiceNo", "imageUrl"}

KeepsIdentity == Len(allBills') = Len(allBills) /\ \A i \in 1..Len(allBills) : \A f \in KeptFields : allBills'[i][f] = allBills[i][f]

\* The bills an edit changes: none, or the one its argument names (the id
\* is in the job of a configured session, which has a persist to await).
AtMostOneChanged == \A a, b \in 1..Len(allBills) : (allBills'[a] # allBills[a] /\ allBills'[b] # allBills[b]) => a = b

EditFrame(j) ==
    /\ IdsInOrder(allBills') = IdsInOrder(allBills)
    /\ AtMostOneChanged
    /\ isConfigured => \A i \in 1..Len(allBills) : allBills[i].id \notin jobs'[j].sel => allBills'[i] = allBills[i]
    /\ (isConfigured /\ jobs'[j].sel \cap Ids(allBills) = {}) => allBills' = allBills

BulkFrame(j) == IdsInOrder(allBills') = IdsInOrder(allBills) /\ WritesSelected(j) /\ KeepsIdentity

C35_FrameOfUpdates == [][\A j \in Jobs : (EditStarts(j) => EditFrame(j)) /\ (BulkStarts(j) => BulkFrame(j))]_vars

\* An edit of bill 3, which the store does not hold, is in flight beside a
\* bulk pack of the two bills of the store, which are packed and in their
\* places.
C35_Witness ==
    /\ \E j, e \in Jobs : jobs[e].kind = "edit" /\ jobs[e].sel = {3} /\ jobs[j].kind = "pack" /\ jobs[j].pc = "await"
    /\ IdsInOrder(allBills) = <<2, 1>>
    /\ \A i \in 1..Len(allBills) : allBills[i].status = PACKED

\* C36: for every description that is not blank the index getThemeStyles
\* computes from the rolling hash, the shift wrapping at 32 bits, is one of
\* 0..9, and whatever its arguments getThemeStyles returns an entry of the
\* palette, never undefined.
PaletteEntries == {COLOR_PALETTE[i] : i \in 1..Len(COLOR_PALETTE)}

ThemeIndex(description) == Rem(Abs(hashFrom(Num(0, 0), description)), Len(COLOR_PALETTE))

C36_ThemeIndexInRange ==
    /\ NonBlank(themed.description) => ThemeIndex(themed.description) \in 0..9
    /\ themed.styles # null => themed.styles \in PaletteEntries

\* A card without a colour whose description's hash wrapped, the shift
\* having passed 32 bits, to a negative number: its theme is the entry at
\* the index.
C36_Witness ==
    /\ themed.styles # null
    /\ themed.colorName = Undefined
    /\ NonBlank(themed.description)
    /\ hashFrom(Num(0, 0), themed.description).hi < 0
    /\ themed.styles = COLOR_PALETTE[ThemeIndex(themed.description) + 1]

====
